---- MODULE Spec2Model ----
(***************************************************************************)
(* Heritage Site Monitoring System: the spectral index compositor          *)
(* (HeritageMonitor.calculate_indices), the region statistics reducer, the *)
(* collection query, the Streamlit script run (app.main) with its result  *)
(* cache and tabs, and the per-pixel arithmetic of the index formulas with *)
(* the reducers of calculate_statistics.                                   *)
(*                                                                         *)
(* Earth Engine objects are deferred: every ee.Image method used by        *)
(* utils/gee_utils.py (select, normalizedDifference, divide, expression,   *)
(* rename, addBands) only builds a description of the computation on the   *)
(* client and returns a new handle.  The computation runs, and a missing   *)
(* band or an unbound expression variable is reported, when a value is     *)
(* requested from the server: getInfo() in calculate_statistics, or a map  *)
(* layer request.  A band is therefore modelled by its description plus    *)
(* the outcome its evaluation will have (field ok), and an image returned  *)
(* by calculate_indices by the base image plus the staged bands;           *)
(* Materialize is the server's evaluation of that description.             *)
(***************************************************************************)
EXTENDS Integers, Sequences, FiniteSets, TLC

VARIABLES
    \* ---- one call of HeritageMonitor.calculate_indices, statement by statement
    pc,             \* "idle" | "catalog" | "custom" | "add" | "done"
    image,          \* argument image
    extra_indices,  \* argument extra_indices
    i,              \* position of the loop in progress (catalog or custom)
    bands_to_add,   \* local list bands_to_add
    result,         \* returned image handle
    skipped,        \* history: the indices whose exception an except clause swallowed
    log,            \* records calculate_indices writes to a log
    \* ---- the Streamlit session (st.session_state) and the MySQL database
    custom_indices,     \* st.session_state.custom_indices
    active_tab,         \* st.session_state.active_tab
    analysis_results,   \* st.session_state.analysis_results: <<>> (None) or <<results>>
    sites_history,      \* table sites_history: rows [params_hash, stats_json]
    temporal_cache,     \* table temporal_cache: rows [site_name, index_name, analysis_date, value]
    ui,                 \* what the last script run displayed, called and raised
    session_site,       \* st.session_state: current_preset, site_name, center_lat,
                        \* center_lon, buffer_km, latest_drawings
    \* ---- one index band evaluated and reduced over a sample region
    pixels,         \* the pixels of the region: each gives every band its value
    computed,       \* the band computed: [op, name, formula, bands, values]
    statistics      \* what calculate_statistics returned or raised

engineVars == <<pc, image, extra_indices, i, bands_to_add, result, skipped, log>>
appVars == <<custom_indices, active_tab, analysis_results, sites_history,
             temporal_cache, ui, session_site>>
pixelVars == <<pixels, computed, statistics>>

-----------------------------------------------------------------------------
(* Small helpers over sequences.                                           *)

Range(s) == {s[k] : k \in 1..Len(s)}

RECURSIVE SeqsUpTo(_, _)
\* All sequences over S of length at most n.
SeqsUpTo(S, n) ==
    IF n = 0 THEN {<<>>}
    ELSE LET shorter == SeqsUpTo(S, n - 1)
         IN  shorter \cup {Append(s, x) : s \in {t \in shorter : Len(t) = n - 1}, x \in S}

-----------------------------------------------------------------------------
(* config/settings.py                                                      *)

\* SENTINEL2_BANDS, in dict order.
SENTINEL2_BANDS ==
    <<"B1", "B2", "B3", "B4", "B5", "B6", "B7", "B8", "B8A", "B9", "B11", "B12">>

\* INDICES_CONFIG, in dict order: key, 'formula' and 'bands' of each entry.
INDICES_CONFIG == <<
    [idx_name |-> "NDVI",  formula |-> "normalized_diff", bands |-> <<"B8", "B4">>],
    [idx_name |-> "EVI",   formula |-> "evi",             bands |-> <<"B8", "B4", "B2">>],
    [idx_name |-> "SAVI",  formula |-> "savi",            bands |-> <<"B8", "B4">>],
    [idx_name |-> "NDRE",  formula |-> "normalized_diff", bands |-> <<"B8", "B5">>],
    [idx_name |-> "NDBI",  formula |-> "normalized_diff", bands |-> <<"B11", "B8">>],
    [idx_name |-> "UI",    formula |-> "normalized_diff", bands |-> <<"B12", "B8A">>],
    [idx_name |-> "IBI",   formula |-> "ibi",             bands |-> <<"B11", "B8", "B3", "B4">>],
    [idx_name |-> "NDMI",  formula |-> "normalized_diff", bands |-> <<"B8", "B11">>],
    [idx_name |-> "NDWI",  formula |-> "normalized_diff", bands |-> <<"B3", "B8">>],
    [idx_name |-> "MNDWI", formula |-> "normalized_diff", bands |-> <<"B3", "B11">>],
    [idx_name |-> "BSI",   formula |-> "bsi",             bands |-> <<"B11", "B4", "B8", "B2">>],
    [idx_name |-> "RI",    formula |-> "normalized_diff", bands |-> <<"B4", "B3">>],
    [idx_name |-> "NBR",   formula |-> "normalized_diff", bands |-> <<"B8", "B12">>],
    [idx_name |-> "BAI",   formula |-> "normalized_diff", bands |-> <<"B12", "B8A">>] >>

CatalogNames == {INDICES_CONFIG[k].idx_name : k \in 1..Len(INDICES_CONFIG)}

-----------------------------------------------------------------------------
(* Images.  An image is the ordered list of its bands; a band is           *)
(* [name, origin, expr, ok]: origin and expr describe how its values are   *)
(* computed ("source" bands come from the archive), ok is whether the      *)
(* server can evaluate it.                                                 *)

SourceBand(b) == [name |-> b, origin |-> "source", expr |-> b, ok |-> TRUE]

RECURSIVE SourceImage(_)
SourceImage(names) ==
    IF names = <<>> THEN <<>>
    ELSE <<SourceBand(Head(names))>> \o SourceImage(Tail(names))

BandNames(img) == {img[k].name : k \in 1..Len(img)}

\* A Sentinel-2 surface reflectance scene or median composite.
S2Image == SourceImage(SENTINEL2_BANDS)

\* The same image without its red-edge band B5 (a truncated image).
TruncatedImage == SourceImage(SelectSeq(SENTINEL2_BANDS, LAMBDA b : b # "B5"))

\* The two-band image NIR, RED.
TwoBandImage == SourceImage(<<"B8", "B4">>)

\* A Sentinel-2 image that already carries a band named NDVI.
PreIndexedImage ==
    Append(S2Image, [name |-> "NDVI", origin |-> "source", expr |-> "NDVI", ok |-> TRUE])

Images == {S2Image, TruncatedImage, TwoBandImage, PreIndexedImage}

-----------------------------------------------------------------------------
(* User-defined index definitions (the dicts of extra_indices).  keys is   *)
(* the set of keys the dict holds; a field whose key is absent is not      *)
(* read.  An expression text is its token list.                            *)

Var(v) == [t |-> "var", s |-> v]
Op(o)  == [t |-> "op",  s |-> o]
Num(n) == [t |-> "num", s |-> n]

\* "(NIR - RED) / (NIR + RED)", the sidebar's default expression text.
DefaultExpression ==
    <<Op("("), Var("NIR"), Op("-"), Var("RED"), Op(")"), Op("/"),
      Op("("), Var("NIR"), Op("+"), Var("RED"), Op(")")>>

\* The variable names an expression text references.
ExprVars(expr) == {expr[k].s : k \in {n \in 1..Len(expr) : expr[n].t = "var"}}

NoExprBands == [v \in {} |-> ""]

AllKeys == {"name", "formula", "band_a", "band_b", "expression", "expression_bands"}

\* Sidebar default: CUSTOM1 = (B8 - B4) / (B8 + B4).
CustomNd ==
    [keys |-> {"name", "formula", "band_a", "band_b"}, name |-> "CUSTOM1",
     formula |-> "normalized_diff", band_a |-> "B8", band_b |-> "B4",
     expression |-> <<>>, expression_bands |-> NoExprBands]

\* A user index named like the catalog index NDVI.
CustomNamedNdvi ==
    [keys |-> {"name", "formula", "band_a", "band_b"}, name |-> "NDVI",
     formula |-> "ratio", band_a |-> "B8", band_b |-> "B4",
     expression |-> <<>>, expression_bands |-> NoExprBands]

\* A second definition of CUSTOM1: B8 - B4.
CustomDiff ==
    [keys |-> {"name", "formula", "band_a", "band_b"}, name |-> "CUSTOM1",
     formula |-> "difference", band_a |-> "B8", band_b |-> "B4",
     expression |-> <<>>, expression_bands |-> NoExprBands]

\* A free expression with its two variables bound.
CustomExpr ==
    [keys |-> {"name", "formula", "expression", "expression_bands"}, name |-> "MY_EXPR",
     formula |-> "expression", band_a |-> "", band_b |-> "",
     expression |-> DefaultExpression,
     expression_bands |-> [v \in {"NIR", "RED"} |-> IF v = "NIR" THEN "B8" ELSE "B4"]]

\* The default expression with "Number of variables" set to 1: RED is unbound.
CustomExprUnbound ==
    [keys |-> {"name", "formula", "expression", "expression_bands"}, name |-> "MY_IDX",
     formula |-> "expression", band_a |-> "", band_b |-> "",
     expression |-> DefaultExpression,
     expression_bands |-> [v \in {"NIR"} |-> "B1"]]

\* A dict without 'band_b'.
CustomNoBandB ==
    [keys |-> {"name", "formula", "band_a"}, name |-> "CUSTOM2",
     formula |-> "ratio", band_a |-> "B8", band_b |-> "",
     expression |-> <<>>, expression_bands |-> NoExprBands]

\* A dict whose 'formula' is none of the four kinds.
CustomUnknownFormula ==
    [keys |-> {"name", "formula", "band_a", "band_b"}, name |-> "CUSTOM3",
     formula |-> "evi", band_a |-> "B8", band_b |-> "B4",
     expression |-> <<>>, expression_bands |-> NoExprBands]

CustomDefs ==
    {CustomNd, CustomNamedNdvi, CustomDiff, CustomExpr, CustomExprUnbound,
     CustomNoBandB, CustomUnknownFormula}

\* The longest extra_indices list explored.
MaxExtra == 2

ExtraLists == SeqsUpTo(CustomDefs, MaxExtra)

\* dict.get(key, default)
Get(d, key, default) == IF key \in d.keys THEN d[key] ELSE default

-----------------------------------------------------------------------------
(* utils/gee_utils.py: the band algebra evaluator.  An outcome is          *)
(* [kind, band, error]: kind "band" (a band handle was returned), "none"   *)
(* (None was returned) or "raise" (a Python exception left the function).  *)

NoBand == [name |-> "", origin |-> "", expr |-> "", ok |-> FALSE]

Returned(band) == [kind |-> "band", band |-> band, error |-> ""]
ReturnedNone   == [kind |-> "none", band |-> NoBand, error |-> ""]
Raised(err)    == [kind |-> "raise", band |-> NoBand, error |-> err]

\* A derived band handle: the server can evaluate it iff every band it
\* selects is on the image (and whatever else `fine` requires).
Derived(img, name, origin, expr, selected, fine) ==
    Returned([name |-> name, origin |-> origin, expr |-> expr,
              ok |-> fine /\ selected \subseteq BandNames(img)])

\* HeritageMonitor._compute_index
_compute_index(img, name, cfg) ==
    CASE cfg.formula = "normalized_diff" /\ Len(cfg.bands) >= 2 ->
            Derived(img, name, "catalog",
                    "nd(" \o cfg.bands[1] \o "," \o cfg.bands[2] \o ")",
                    {cfg.bands[1], cfg.bands[2]}, TRUE)
      [] cfg.formula = "evi" ->
            Derived(img, name, "catalog", "evi", {"B8", "B4", "B2"}, TRUE)
      [] cfg.formula = "savi" ->
            Derived(img, name, "catalog", "savi", {"B8", "B4"}, TRUE)
      [] cfg.formula = "bsi" ->
            Derived(img, name, "catalog", "bsi", {"B11", "B4", "B8", "B2"}, TRUE)
      [] cfg.formula = "ibi" ->
            Derived(img, name, "catalog", "ibi", {"B11", "B8", "B3", "B4"}, TRUE)
      [] OTHER -> ReturnedNone

\* The two-band formulas of _compute_custom_index: custom['band_a'] and
\* custom['band_b'] raise KeyError when the key is absent.
TwoBandCustom(img, name, custom, op) ==
    IF "band_a" \notin custom.keys THEN Raised("KeyError: band_a")
    ELSE IF "band_b" \notin custom.keys THEN Raised("KeyError: band_b")
    ELSE Derived(img, name, "custom",
                 op \o "(" \o custom.band_a \o "," \o custom.band_b \o ")",
                 {custom.band_a, custom.band_b}, TRUE)

\* HeritageMonitor._compute_custom_index
_compute_custom_index(img, custom) ==
    LET name    == Get(custom, "name", "CUSTOM")
        formula == Get(custom, "formula", "normalized_diff")
    IN  CASE formula = "normalized_diff" -> TwoBandCustom(img, name, custom, "nd")
          [] formula = "ratio"           -> TwoBandCustom(img, name, custom, "ratio")
          [] formula = "difference"      -> TwoBandCustom(img, name, custom, "difference")
          [] formula = "expression" ->
                IF "expression" \notin custom.keys THEN Raised("KeyError: expression")
                ELSE LET expr_map == Get(custom, "expression_bands", NoExprBands)
                     IN  Derived(img, name, "custom", "expression",
                                 {expr_map[v] : v \in DOMAIN expr_map},
                                 ExprVars(custom.expression) \subseteq DOMAIN expr_map)
          [] OTHER -> ReturnedNone

-----------------------------------------------------------------------------
(* Server-side evaluation of an image handle.                              *)

RECURSIVE FreeName(_, _, _)
\* Image.addBands with overwrite = false: a band whose name is taken is
\* renamed name_1, or name_2 when name_1 is taken too, and so on.
FreeName(name, taken, k) ==
    LET candidate == name \o "_" \o ToString(k)
    IN  IF candidate \notin taken THEN candidate ELSE FreeName(name, taken, k + 1)

RECURSIVE AddBands(_, _)
\* Image.addBands(dst, src), overwrite left at its default (false).
AddBands(dst, src) ==
    IF src = <<>> THEN dst
    ELSE LET b    == Head(src)
             name == IF b.name \in BandNames(dst) THEN FreeName(b.name, BandNames(dst), 1)
                     ELSE b.name
         IN  AddBands(Append(dst, [b EXCEPT !.name = name]), Tail(src))

RECURSIVE Combine(_)
\* ee.Image(list): the images of the list folded with Image.addBands.
Combine(bands) ==
    IF Len(bands) <= 1 THEN bands
    ELSE AddBands(Combine(SubSeq(bands, 1, Len(bands) - 1)), <<bands[Len(bands)]>>)

\* What the server returns for a handle [base, added]: an error when any
\* node of the description cannot be evaluated, the bands otherwise.
Materialize(handle) ==
    IF \E k \in 1..Len(handle.added) : ~handle.added[k].ok
    THEN [ok |-> FALSE, bands |-> <<>>]
    ELSE [ok |-> TRUE,
          bands |-> IF handle.added = <<>> THEN handle.base
                    ELSE AddBands(handle.base, Combine(handle.added))]

NoHandle == [base |-> <<>>, added |-> <<>>]


-----------------------------------------------------------------------------
(* utils/gee_utils.py: HeritageMonitor.calculate_indices.                  *)

\* One iteration of either loop: try: band = ...; if band is not None:
\* bands_to_add.append(band); except Exception: pass
Stage(staged, outcome) ==
    IF outcome.kind = "band" THEN Append(staged, outcome.band) ELSE staged

\* The history of swallowed exceptions after the same iteration.
Swallow(swallowed, name, outcome) ==
    IF outcome.kind = "raise"
    THEN Append(swallowed, [name |-> name, error |-> outcome.error])
    ELSE swallowed

\* The log after the same iteration: neither except clause writes a record.
LogSkip(records, name, outcome) == records

RECURSIVE StageCatalog(_, _, _)
\* for idx_name, cfg in INDICES_CONFIG.items(): ..., from entry k on.
StageCatalog(img, staged, k) ==
    IF k > Len(INDICES_CONFIG) THEN staged
    ELSE StageCatalog(img,
                      Stage(staged, _compute_index(img, INDICES_CONFIG[k].idx_name,
                                                   INDICES_CONFIG[k])),
                      k + 1)

RECURSIVE StageCustom(_, _, _, _)
\* for custom in extra_indices: ..., from element k on.
StageCustom(img, extras, staged, k) ==
    IF k > Len(extras) THEN staged
    ELSE StageCustom(img, extras,
                     Stage(staged, _compute_custom_index(img, extras[k])), k + 1)

\* if bands_to_add: return image.addBands(bands_to_add); return image
ReturnImage(img, staged) == [base |-> img, added |-> staged]

\* The whole call, as its callers see it.
calculate_indices(img, extras) ==
    ReturnImage(img, StageCustom(img, extras, StageCatalog(img, <<>>, 1), 1))

\* The same call, one statement at a time.
Call ==
    /\ pc = "idle"
    /\ \E img \in Images, extras \in ExtraLists :
          /\ image' = img
          /\ extra_indices' = extras
    /\ pc' = "catalog"
    /\ i' = 1
    /\ bands_to_add' = <<>>
    /\ result' = NoHandle
    /\ skipped' = <<>>
    /\ log' = <<>>
    /\ UNCHANGED <<appVars, pixelVars>>

CatalogStep ==
    /\ pc = "catalog"
    /\ LET cfg     == INDICES_CONFIG[i]
           outcome == _compute_index(image, cfg.idx_name, cfg)
       IN  /\ bands_to_add' = Stage(bands_to_add, outcome)
           /\ skipped' = Swallow(skipped, cfg.idx_name, outcome)
           /\ log' = LogSkip(log, cfg.idx_name, outcome)
    /\ IF i < Len(INDICES_CONFIG)
       THEN /\ i' = i + 1
            /\ pc' = "catalog"
       ELSE /\ i' = 1
            /\ pc' = IF extra_indices # <<>> THEN "custom" ELSE "add"
    /\ UNCHANGED <<image, extra_indices, result>>
    /\ UNCHANGED <<appVars, pixelVars>>

CustomStep ==
    /\ pc = "custom"
    /\ LET custom  == extra_indices[i]
           outcome == _compute_custom_index(image, custom)
       IN  /\ bands_to_add' = Stage(bands_to_add, outcome)
           /\ skipped' = Swallow(skipped, Get(custom, "name", "CUSTOM"), outcome)
           /\ log' = LogSkip(log, Get(custom, "name", "CUSTOM"), outcome)
    /\ IF i < Len(extra_indices)
       THEN /\ i' = i + 1
            /\ pc' = "custom"
       ELSE /\ i' = 1
            /\ pc' = "add"
    /\ UNCHANGED <<image, extra_indices, result>>
    /\ UNCHANGED <<appVars, pixelVars>>

AddBandsStep ==
    /\ pc = "add"
    /\ result' = ReturnImage(image, bands_to_add)
    /\ pc' = "done"
    /\ UNCHANGED <<image, extra_indices, i, bands_to_add, skipped, log>>
    /\ UNCHANGED <<appVars, pixelVars>>

Return ==
    /\ pc = "done"
    /\ pc' = "idle"
    /\ UNCHANGED <<image, extra_indices, i, bands_to_add, result, skipped, log>>
    /\ UNCHANGED <<appVars, pixelVars>>

-----------------------------------------------------------------------------
(* Properties of calculate_indices.                                        *)

\* The catalog entries the server can evaluate on img.
Computable(img, k) ==
    LET outcome == _compute_index(img, INDICES_CONFIG[k].idx_name, INDICES_CONFIG[k])
    IN  outcome.kind = "band" /\ outcome.band.ok

\* A free-expression definition whose variable map omits a referenced variable.
OmitsVariable(custom) ==
    /\ Get(custom, "formula", "normalized_diff") = "expression"
    /\ "expression" \in custom.keys
    /\ ~(ExprVars(custom.expression) \subseteq DOMAIN Get(custom, "expression_bands", NoExprBands))

\* A user definition the server can evaluate on img.
CustomComputable(img, custom) ==
    LET outcome == _compute_custom_index(img, custom)
    IN  outcome.kind = "band" /\ outcome.band.ok

\* C1: calculate_indices on an image that lacks a band some catalog index
\* references returns an image that evaluates, holds the band of every
\* catalog index whose bands are present, and lacks only the affected ones
\* (stated for calls without user definitions).
C1_OtherIndicesSurvive ==
    (pc = "done" /\ extra_indices = <<>>) =>
        LET M == Materialize(result)
        IN  /\ M.ok
            /\ \A k \in 1..Len(INDICES_CONFIG) :
                  LET n == INDICES_CONFIG[k].idx_name
                  IN  /\ Computable(image, k) => n \in BandNames(M.bands)
                      /\ (~Computable(image, k) /\ n \notin BandNames(image))
                            => n \notin BandNames(M.bands)

\* C2: on an image with every catalog band, a free-expression definition
\* whose variable map omits a referenced variable fails alone: its band is
\* not in the result, and every catalog index and every other evaluable user
\* definition is.
C2_UnboundExpressionFailsAlone ==
    (/\ pc = "done"
     /\ \A k \in 1..Len(INDICES_CONFIG) : Computable(image, k)
     /\ \E k \in 1..Len(extra_indices) : OmitsVariable(extra_indices[k])
     /\ \A k \in 1..Len(extra_indices) :
           OmitsVariable(extra_indices[k]) \/ CustomComputable(image, extra_indices[k]))
    =>  LET M == Materialize(result)
        IN  /\ M.ok
            /\ \A k \in 1..Len(INDICES_CONFIG) :
                  INDICES_CONFIG[k].idx_name \in BandNames(M.bands)
            /\ \A k \in 1..Len(extra_indices) :
                  LET n == Get(extra_indices[k], "name", "CUSTOM")
                  IN  IF OmitsVariable(extra_indices[k])
                      THEN n \notin BandNames(M.bands)
                      ELSE n \in BandNames(M.bands)

\* C8: every index whose exception calculate_indices swallowed has a log
\* record with its name and the kind of failure.
C8_EverySkipLogged ==
    \A k \in 1..Len(skipped) :
        \E l \in 1..Len(log) :
            log[l].name = skipped[k].name /\ log[l].error = skipped[k].error

\* The staged bands named n, by position.
StagedAs(n) == {p \in 1..Len(bands_to_add) : bands_to_add[p].name = n}

Max(S) == CHOOSE x \in S : \A y \in S : y <= x

\* C9: when a staged band is named like a band of the input image or like a
\* band staged earlier, the result holds exactly one band of that name, with
\* the values of the band staged last (stated for calls in which every
\* staged band evaluates).
C9_LastStagedWins ==
    (pc = "done" /\ \A p \in 1..Len(bands_to_add) : bands_to_add[p].ok) =>
        \A p \in 1..Len(bands_to_add) :
            LET n == bands_to_add[p].name
                M == Materialize(result)
                holders == {q \in 1..Len(M.bands) : M.bands[q].name = n}
                last == bands_to_add[Max(StagedAs(n))]
            IN  (n \in BandNames(image) \/ \E q \in StagedAs(n) : q < p) =>
                    /\ Cardinality(holders) = 1
                    /\ \A q \in holders : /\ M.bands[q].origin = last.origin
                                          /\ M.bands[q].expr = last.expr

\* The position in the evaluation order (catalog, then user list) of the
\* evaluation that staged a band: catalog entries are found by name.
CatalogPos(n) == CHOOSE k \in 1..Len(INDICES_CONFIG) : INDICES_CONFIG[k].idx_name = n

\* C10: the catalog is evaluated in order, then the user list in order; the
\* successful bands are staged in that order and added in one step after the
\* last evaluation; the result's band names include the input's.
C10_OrderedBatchSuperset ==
    /\ pc \in {"catalog", "custom", "add"} => result = NoHandle
    /\ \A p, q \in 1..Len(bands_to_add) :
          p < q =>
             LET a == bands_to_add[p]
                 b == bands_to_add[q]
             IN  /\ ~(a.origin = "custom" /\ b.origin = "catalog")
                 /\ (a.origin = "catalog" /\ b.origin = "catalog")
                        => CatalogPos(a.name) < CatalogPos(b.name)
    /\ pc = "done" =>
          /\ result.base = image
          /\ result.added = bands_to_add
          /\ Len(bands_to_add) =
                Cardinality({k \in 1..Len(INDICES_CONFIG) :
                                _compute_index(image, INDICES_CONFIG[k].idx_name,
                                               INDICES_CONFIG[k]).kind = "band"})
                + Cardinality({k \in 1..Len(extra_indices) :
                                _compute_custom_index(image, extra_indices[k]).kind = "band"})
          /\ BandNames(image) \subseteq BandNames(Materialize(result).bands)


-----------------------------------------------------------------------------
(* The archive and the collection query.                                   *)

\* Time units per day: a timestamp t falls on day t \div DayTicks.
DayTicks == 2

\* datetime.fromtimestamp(ts / 1000).strftime('%Y-%m-%d') / .date()
DateOf(ts) == ts \div DayTicks

\* The instant Earth Engine reads a 'YYYY-MM-DD' string as: that day, 00:00.
Midnight(day) == day * DayTicks

\* SITE_PRESETS (two of them); degrees in units of 0.0001, km in units of 0.1.
SITE_PRESETS == {
    [site_name |-> "Alba Iulia Fortress (Romania)", lat |-> 460686, lon |-> 235714,
     buffer_km |-> 20],
    [site_name |-> "Sagrada Familia (Spain)", lat |-> 414036, lon |-> 21744,
     buffer_km |-> 10] }

\* A scene of the archive: the point its footprint is around, its
\* system:time_start, its CLOUDY_PIXEL_PERCENTAGE, whether the region of
\* interest holds any unmasked pixel, and the (uniform) value of its pixels,
\* times 10000.
Scene(lat, lon, ts, cloud, valid, value) ==
    [lat |-> lat, lon |-> lon, time_start |-> ts, cloud |-> cloud,
     valid |-> valid, value |-> value]

\* COPERNICUS/S2_SR_HARMONIZED, in collection order: the order of the asset
\* ids (datatake, then tile), so that of two tiles of one datatake the one
\* listed first can be the one acquired a little later.
ARCHIVE == <<
    Scene(460686, 235714, Midnight(1) + 1, 10, TRUE, 4000),
    Scene(460686, 235714, Midnight(1), 5, TRUE, 3000),
    Scene(414036, 21744,  Midnight(1) + 1, 10, FALSE, 0),
    Scene(460686, 235714, Midnight(2), 5, TRUE, 5000),
    Scene(460686, 235714, Midnight(2) + 1, 20, TRUE, 7000),
    Scene(414036, 21744,  Midnight(2) + 1, 10, FALSE, 0),
    Scene(460686, 235714, Midnight(3) + 1, 5, TRUE, 6000) >>

\* ee.Geometry.Point([lon, lat]).buffer(buffer_km * 1000)
Aoi(config) ==
    [lat |-> config.center_lat, lon |-> config.center_lon,
     radius_m |-> config.buffer_km * 100]

\* .filterBounds(geometry)
FilterBounds(scene, geometry) == scene.lat = geometry.lat /\ scene.lon = geometry.lon

\* .filterDate(start, end): start inclusive, end exclusive.
FilterDate(scene, start, end) ==
    Midnight(start) <= scene.time_start /\ scene.time_start < Midnight(end)

\* .filter(ee.Filter.lt('CLOUDY_PIXEL_PERCENTAGE', cloud_cover))
FilterCloud(scene, cloud_cover) == scene.cloud < cloud_cover

\* HeritageMonitor.get_sentinel2_collection
get_sentinel2_collection(geometry, start_date, end_date, cloud_cover) ==
    SelectSeq(ARCHIVE, LAMBDA scene : /\ FilterBounds(scene, geometry)
                                      /\ FilterDate(scene, start_date, end_date)
                                      /\ FilterCloud(scene, cloud_cover))

-----------------------------------------------------------------------------
(* Scene images, the median composite and the statistics reducer.  An      *)
(* image is [bands, added, valid, value]: its source bands, the bands      *)
(* calculate_indices staged on it, and its pixels over the region.         *)

SceneImage(scene) ==
    [bands |-> S2Image, added |-> <<>>, valid |-> scene.valid, value |-> scene.value]

RECURSIVE SortedValues(_)
\* The values of a set, ascending.
SortedValues(S) ==
    IF S = {} THEN <<>>
    ELSE LET m == CHOOSE x \in S : \A y \in S : x <= y
         IN  <<m>> \o SortedValues(S \ {m})

\* The middle element of the sorted values, 0 for none.
Middle(values) == IF values = <<>> THEN 0 ELSE values[(Len(values) + 1) \div 2]

\* collection.median(): per-pixel median of the unmasked values; an empty
\* collection gives an image without bands.
Median(coll) ==
    [bands |-> IF coll = <<>> THEN <<>> ELSE S2Image,
     added |-> <<>>,
     valid |-> \E k \in 1..Len(coll) : coll[k].valid,
     value |-> Middle(SortedValues({coll[k].value : k \in {j \in 1..Len(coll) : coll[j].valid}}))]

\* The definitions the Custom Index Builder of the sidebar is used for.
BuilderDefs == {CustomNd, CustomExprUnbound}

\* The builder with the "Index Name" field emptied.
CustomUnnamed == [CustomNd EXCEPT !.name = ""]

\* What the builder holds when "Add Custom Index to Analysis" is pressed.
BuilderInputs == BuilderDefs \cup {CustomUnnamed}

\* calculate_indices on a Sentinel-2 image for the lists of definitions the
\* sidebar can hold, and the server's evaluation of each result, tabulated.
IndexedS2 ==
    [extras \in SeqsUpTo(BuilderDefs, Cardinality(BuilderDefs)) |->
        calculate_indices(S2Image, extras)]
EvaluatedS2 ==
    [handle \in {IndexedS2[extras] : extras \in DOMAIN IndexedS2} |-> Materialize(handle)]

\* monitor.calculate_indices(image, extra_indices=extras)
WithIndices(img, extras) ==
    [img EXCEPT !.added = IF img.bands = S2Image /\ extras \in DOMAIN IndexedS2
                          THEN IndexedS2[extras].added
                          ELSE calculate_indices(img.bands, extras).added]

\* The server's evaluation of an image.
Evaluated(img) ==
    IF [base |-> img.bands, added |-> img.added] \in DOMAIN EvaluatedS2
    THEN EvaluatedS2[[base |-> img.bands, added |-> img.added]]
    ELSE Materialize([base |-> img.bands, added |-> img.added])

\* A statistic: None, or a number (times 10000).
NoneValue == [none |-> TRUE, num |-> 0]
Number(x) == [none |-> FALSE, num |-> x]

StatKeys == {"mean", "stdDev", "min", "max"}

\* The dict keyed '{index}_mean', ...: here keyed by the metric alone.
EmptyDict == [k \in {} |-> NoneValue]

\* reduceRegion(...).getInfo() on the evaluated image M: [kind, stats], kind
\* "ok" or "raise".  reduceRegion gives None for each statistic when no pixel
\* is valid; getInfo raises when the image cannot be evaluated or has no
\* band of that name.
Reduce(M, img, index) ==
    IF ~M.ok \/ index \notin BandNames(M.bands)
    THEN [kind |-> "raise", stats |-> EmptyDict]
    ELSE [kind |-> "ok",
          stats |-> [k \in StatKeys |->
                        IF ~img.valid THEN NoneValue
                        ELSE IF k = "stdDev" THEN Number(0)
                        ELSE Number(img.value)]]

\* HeritageMonitor.calculate_statistics
calculate_statistics(img, index) == Reduce(Evaluated(img), img, index)

\* The reductions of the evaluated image M, one for each idx of indices.
ReduceEach(M, img, indices) ==
    [k \in 1..Len(indices) |-> Reduce(M, img, indices[k])]

\* calculate_statistics(img, idx) for each idx of indices, in order.
StatsOf(img, indices) ==
    LET M == Evaluated(img)
    IN  ReduceEach(M, img, indices)

\* stats.get(f'{idx}_{key}', default)
StatGet(stats, key, default) == IF key \in DOMAIN stats THEN stats[key] ELSE default

-----------------------------------------------------------------------------
(* utils/db_utils.py                                                       *)

\* generate_params_hash: SHA-256 of the seven values joined by '_'.
generate_params_hash(config) ==
    <<config.site_name, config.center_lat, config.center_lon, config.buffer_km,
      config.start_date, config.end_date, config.cloud_cover>>

\* save_analysis_to_db: INSERT ... ON DUPLICATE KEY UPDATE analysis_date = now.
save_analysis_to_db(table, config, stats) ==
    IF \E row \in table : row.params_hash = generate_params_hash(config)
    THEN table
    ELSE table \cup {[params_hash |-> generate_params_hash(config), stats_json |-> stats]}

\* get_analysis_from_db: <<stats>> when a row has the hash, <<>> (None) otherwise.
get_analysis_from_db(table, config) ==
    IF \E row \in table : row.params_hash = generate_params_hash(config)
    THEN <<(CHOOSE row \in table : row.params_hash = generate_params_hash(config)).stats_json>>
    ELSE <<>>

\* Python truth value of the returned object: None and {} are false.
Truthy(cached) == cached # <<>> /\ DOMAIN cached[1] # {}

-----------------------------------------------------------------------------
(* What a script run shows and does.  messages: st.info / st.warning /     *)
(* st.error texts; metrics: the st.metric values formatted; swallowed: the *)
(* exceptions an except clause outside calculate_indices caught without    *)
(* showing or re-raising them; calls: the Earth Engine work requested,     *)
(* with the number of scenes of the collection it ran on and whether a     *)
(* reduction found no valid pixel; raised: the exception that ended the    *)
(* run ("" when none); stopped: st.stop() ended the run; indices: the list *)
(* config['indices'] render_sidebar returned in the run (<<>> when the run *)
(* did not reach the sidebar).                                             *)

Message(kind, text) == [kind |-> kind, text |-> text]
Metric(tab, idx, key, v) == [tab |-> tab, idx |-> idx, key |-> key, num |-> v.num]
EngineCall(phase, op, idx, count, absent) ==
    [phase |-> phase, op |-> op, idx |-> idx, count |-> count, absent |-> absent,
     ts |-> 0]
\* A call made for the entry ts of dates_to_process (system:time_start).
SceneCall(phase, op, idx, count, absent, ts) ==
    [EngineCall(phase, op, idx, count, absent) EXCEPT !.ts = ts]
Swallowed(phase, op, idx) == [phase |-> phase, op |-> op, idx |-> idx]

EmptyOut ==
    [messages |-> {}, metrics |-> {}, swallowed |-> {}, calls |-> {}, raised |-> "",
     stopped |-> FALSE, indices |-> <<>>]

\* The output of two consecutive parts of a run; the second part does not
\* run when the first raised.
Then(a, b) ==
    IF a.raised # "" \/ a.stopped THEN a
    ELSE [messages |-> a.messages \cup b.messages, metrics |-> a.metrics \cup b.metrics,
          swallowed |-> a.swallowed \cup b.swallowed, calls |-> a.calls \cup b.calls,
          raised |-> b.raised, stopped |-> b.stopped,
          indices |-> IF a.indices # <<>> THEN a.indices ELSE b.indices]

\* The least element of a set of positions, 0 for the empty set.
First(S) == IF S = {} THEN 0 ELSE CHOOSE k \in S : \A j \in S : k <= j

\* The first position whose calculate_statistics raised, or 0.
FirstRaise(stats) == First({k \in 1..Len(stats) : stats[k].kind = "raise"})

\* The reduction returned None for its statistics.
Absent(r) == r.kind = "ok" /\ r.stats["mean"].none

\* The calculate_statistics calls made on indices[1..n], with results stats.
StatCalls(phase, indices, stats, n, count) ==
    {EngineCall(phase, "calculate_statistics", indices[k], count, Absent(stats[k])) :
        k \in 1..n}

\* f"{value:.4f}": None has no such format (TypeError).
Formats(v) == ~v.none

-----------------------------------------------------------------------------
(* app.py: main(), the part run when Run Analysis is pressed               *)
(* (config['run_analysis']).                                               *)

NoImagesWarning == "No images were found for the selected time period."

\* if count > 0
HasImages(count) == count > 0

\* The results dict stored in st.session_state.analysis_results.
Results(coll, stats, from_cache, config) ==
    [collection |-> coll, count |-> Len(coll), stats |-> stats,
     is_from_cache |-> from_cache, config |-> config, aoi |-> Aoi(config)]

\* collection.size().getInfo() as a call of the main script.
Query(count) == {EngineCall("main", "get_sentinel2_collection", "", count, FALSE)}

\* Lines 97-100: the dict results_to_save[idx] = stats, one key for each name
\* of config['indices'].
results_to_save(indices, stats) ==
    [idx \in Range(indices) |->
        stats[CHOOSE k \in 1..Len(indices) : indices[k] = idx].stats]

\* Lines 87-108, given the results of the calculate_statistics loop.
ComputeBranch(config, table, coll, stats) ==
    IF FirstRaise(stats) # 0
    THEN [results |-> <<>>,
          table   |-> table,
          out     |-> [EmptyOut EXCEPT
                         !.calls = Query(Len(coll))
                                   \cup {EngineCall("main", "median", "", Len(coll), FALSE),
                                         EngineCall("main", "calculate_indices", "",
                                                    Len(coll), FALSE)}
                                   \cup StatCalls("main", config.indices, stats,
                                                  FirstRaise(stats), Len(coll)),
                         !.raised = "main: EEException"]]
    ELSE [results |-> <<Results(coll, results_to_save(config.indices, stats),
                                FALSE, config)>>,
          table   |-> save_analysis_to_db(table, config,
                                          results_to_save(config.indices, stats)),
          out     |-> [EmptyOut EXCEPT
                         !.calls = Query(Len(coll))
                                   \cup {EngineCall("main", "median", "", Len(coll), FALSE),
                                         EngineCall("main", "calculate_indices", "",
                                                    Len(coll), FALSE)}
                                   \cup StatCalls("main", config.indices, stats,
                                                  Len(stats), Len(coll))]]

\* Lines 75-114, given the cached row and the collection.
RunWith(config, table, cached_stats, coll) ==
    IF Truthy(cached_stats)
    THEN [results |-> <<Results(coll, cached_stats[1], TRUE, config)>>,
          table   |-> table,
          out     |-> [EmptyOut EXCEPT !.calls = Query(Len(coll))]]
    ELSE IF HasImages(Len(coll))
    THEN LET stats == StatsOf(WithIndices(Median(coll), config.custom_indices),
                              config.indices)
         IN  ComputeBranch(config, table, coll, stats)
    ELSE [results |-> <<>>,
          table   |-> table,
          out     |-> [EmptyOut EXCEPT
                         !.calls = Query(Len(coll)),
                         !.messages = {Message("warning", NoImagesWarning)}]]

\* Line 70, the read of table sites_history, as a call of the main script.
CacheRead == [EmptyOut EXCEPT !.calls = {EngineCall("main", "get_analysis_from_db", "", 0, FALSE)}]

\* Lines 69-114: [results, table, out]; results is <<>> when none is stored.
RunAnalysisPhase(config, table) ==
    LET cached_stats == get_analysis_from_db(table, config)
        collection   == get_sentinel2_collection(Aoi(config), config.start_date,
                                                 config.end_date, config.cloud_cover)
        done         == RunWith(config, table, cached_stats, collection)
    IN  [done EXCEPT !.out = Then(CacheRead, done.out)]

-----------------------------------------------------------------------------
(* ui/tabs/maps_tab.py: render_maps_tab (lines 191-292).                   *)

MapsNoImagesWarning ==
    "No images found for the selected period. Try adjusting cloud cover or dates."

\* A server request for band idx of the evaluated image M (a map layer, a
\* tile layer) fails when the image cannot be evaluated or has no such band.
Missing(M, idx) == ~M.ok \/ idx \notin BandNames(M.bands)

LayerFails(img, idx) == Missing(Evaluated(img), idx)

\* The indices drawn as layers: the catalog ones and the custom ones.
Layered(config) ==
    {idx \in Range(config.indices) :
        \/ idx \in CatalogNames
        \/ \E k \in 1..Len(config.custom_indices) : config.custom_indices[k].name = idx}

\* The names of config['indices'] that have a definition in
\* config['custom_indices'].
CustomNames(config) ==
    {config.custom_indices[k].name : k \in 1..Len(config.custom_indices)}

\* A layer loop that reads INDICES_CONFIG[idx] for every idx.
LayerLookupsUnguarded(config) == Range(config.indices)

\* Lines 212-216: the names the layer loop reads INDICES_CONFIG[idx] for.
LayerLookups(config) == {idx \in Range(config.indices) : idx \in CatalogNames}

\* Lines 253-274: the names the legend loop reads INDICES_CONFIG[idx] for:
\* those it does not `continue` on.
LegendLookups(config) ==
    {idx \in Range(config.indices) : idx \notin CustomNames(config) /\ idx \in CatalogNames}

\* INDICES_CONFIG[name] raises KeyError for the names outside the catalog.
KeyErrors(names) == names \ CatalogNames

\* Lines 195-292, given the evaluation M of indices_image.
MapsLayers(config, count, M) ==
    IF count > 0
    THEN [EmptyOut EXCEPT
            !.messages = {Message("info", "Found " \o ToString(count) \o " Sentinel-2 images"),
                          Message("warning", MapsNoImagesWarning)},
            !.calls = {EngineCall("maps", "median", "", count, FALSE),
                       EngineCall("maps", "calculate_indices", "", count, FALSE)}
                      \cup {EngineCall("maps", "addLayer", idx, count, FALSE) :
                               idx \in Layered(config) \ KeyErrors(LayerLookups(config))}
                      \cup {EngineCall("maps", "INDICES_CONFIG", idx, count, FALSE) :
                               idx \in LayerLookups(config) \cup LegendLookups(config)},
            !.swallowed = {Swallowed("maps", "addLayer", idx) :
                              idx \in {x \in Layered(config) \ KeyErrors(LayerLookups(config)) :
                                          Missing(M, x)}}
                          \cup {Swallowed("maps", "INDICES_CONFIG", idx) :
                                   idx \in KeyErrors(LayerLookups(config))},
            !.raised = IF KeyErrors(LegendLookups(config)) # {} THEN "maps: KeyError" ELSE ""]
    ELSE [EmptyOut EXCEPT
            !.messages = {Message("info", "Found " \o ToString(count) \o " Sentinel-2 images")}]

render_maps_tab(results) ==
    LET indices_image == Evaluated(WithIndices(Median(results.collection), <<>>))
    IN  MapsLayers(results.config, results.count, indices_image)

-----------------------------------------------------------------------------
(* ui/tabs/report_tab.py: render_report_tab (lines 98-180).                *)

\* st.session_state.get("custom_indices", []) or config.get("custom_indices", [])
ReportExtras(session_customs, config) ==
    IF session_customs # <<>> THEN session_customs ELSE config.custom_indices

\* Lines 106-112: the statistics kept for an index, {} when
\* calculate_statistics raised.
ReportStats(r) == IF r.kind = "raise" THEN EmptyDict ELSE r.stats

\* A card of the display loop cannot be formatted.
Unformattable(r) ==
    \E key \in StatKeys : ~Formats(StatGet(ReportStats(r), key, Number(0)))

\* Lines 114-135, given the results of the calculate_statistics loop.
ReportCards(config, count, stats, crash) ==
    [EmptyOut EXCEPT
        !.calls = {EngineCall("report", "median", "", count, FALSE),
                   EngineCall("report", "calculate_indices", "", count, FALSE)}
                  \cup StatCalls("report", config.indices, stats, Len(stats), count),
        !.swallowed =
            {Swallowed("report", "calculate_statistics", config.indices[k]) :
                k \in {j \in 1..Len(stats) : stats[j].kind = "raise"}},
        !.metrics =
            {Metric("report", config.indices[k], key,
                    StatGet(ReportStats(stats[k]), key, Number(0))) :
                k \in {j \in 1..Len(stats) : crash = 0 \/ j < crash}, key \in StatKeys},
        !.raised = IF crash = 0 THEN "" ELSE "report: TypeError"]

\* The display loop stops at the first card that cannot be formatted.
ReportLoop(config, count, stats) ==
    LET crash == First({k \in 1..Len(stats) : Unformattable(stats[k])})
    IN  ReportCards(config, count, stats, crash)

render_report_tab(results, session_customs) ==
    IF results.count > 0
    THEN LET indices_stats ==
                 StatsOf(WithIndices(Median(results.collection),
                                     ReportExtras(session_customs, results.config)),
                         results.config.indices)
         IN  ReportLoop(results.config, results.count, indices_stats)
    ELSE EmptyOut

-----------------------------------------------------------------------------
(* ui/tabs/change_tab.py: render_change_tab.                               *)

TooFewImagesWarning == "At least 2 images required for change detection."

\* The four metrics of one period, or none when one cannot be formatted.
ChangeMetrics(tab, change_index, r) ==
    IF \E key \in StatKeys : ~Formats(StatGet(r.stats, key, Number(0)))
    THEN {}
    ELSE {Metric(tab, change_index, key, StatGet(r.stats, key, Number(0))) :
             key \in StatKeys}

\* Lines 213-235, given the statistics of the two periods.
ChangeStats(count, change_index, before, after) ==
    IF before.kind = "raise"
    THEN [EmptyOut EXCEPT
            !.calls = StatCalls("change", <<change_index>>, <<before>>, 1, count),
            !.raised = "change: EEException"]
    ELSE IF after.kind = "raise"
    THEN [EmptyOut EXCEPT
            !.calls = StatCalls("change", <<change_index>>, <<before>>, 1, count)
                      \cup StatCalls("change", <<change_index>>, <<after>>, 1, count),
            !.raised = "change: EEException"]
    ELSE [EmptyOut EXCEPT
            !.calls = StatCalls("change", <<change_index>>, <<before>>, 1, count)
                      \cup StatCalls("change", <<change_index>>, <<after>>, 1, count),
            !.metrics =
                ChangeMetrics("change before", change_index, before)
                \cup (IF ChangeMetrics("change before", change_index, before) = {}
                      THEN {}
                      ELSE ChangeMetrics("change after", change_index, after)),
            !.raised =
                IF \/ ChangeMetrics("change before", change_index, before) = {}
                   \/ ChangeMetrics("change after", change_index, after) = {}
                THEN "change: TypeError" ELSE ""]

\* Lines 75-194: the two maps, each in a try block that shows its exception.
ChangeMaps(count, layers_fail) ==
    [EmptyOut EXCEPT
        !.calls = {EngineCall("change", "calculate_indices", "", count, FALSE)},
        !.messages = {Message("info", "Comparing")} \cup
                     IF layers_fail
                     THEN {Message("error", "Split map error"),
                           Message("error", "Change map error")}
                     ELSE {}]

\* Line 52: the names render_change_tab reads INDICES_CONFIG[change_index]
\* for; for the others it takes the default vis_index of lines 62-64.
ChangeLookups(change_index) ==
    IF change_index \in CatalogNames THEN {change_index} ELSE {}

\* Lines 52-64: the visualisation parameters of the selected index.
ChangeVis(count, change_index) ==
    [EmptyOut EXCEPT
        !.calls = {EngineCall("change",
                              IF change_index \in ChangeLookups(change_index)
                              THEN "INDICES_CONFIG" ELSE "default vis_index",
                              change_index, count, FALSE)},
        !.raised = IF KeyErrors(ChangeLookups(change_index)) # {}
                   THEN "change: KeyError" ELSE ""]

\* utils/ai_utils.py, get_ai_interpretation: [kind, text].  The function
\* builds the client, diff_mean and the prompt; the request and its return
\* statements are inside a string literal, so the body ends without a
\* return: text is <<>> (None).  The subtraction raises on a None mean.
get_ai_interpretation(index_name, stats_before, stats_after) ==
    IF stats_before.mean.none \/ stats_after.mean.none
    THEN [kind |-> "raise", text |-> <<>>]
    ELSE [kind |-> "ok", text |-> <<>>]

\* Lines 264-274: st.info(interpretation); st.info shows str(None) as None.
ChangeInterpretation(count, change_index, before, after) ==
    LET s_before == [mean |-> StatGet(before.stats, "mean", Number(0))]
        s_after  == [mean |-> StatGet(after.stats, "mean", Number(0))]
        interpretation == get_ai_interpretation(change_index, s_before, s_after)
    IN  [EmptyOut EXCEPT
            !.calls = {EngineCall("change", "get_ai_interpretation", change_index, count,
                                  interpretation.kind = "ok" /\ interpretation.text = <<>>)},
            !.messages = IF interpretation.kind = "raise" THEN {}
                         ELSE {Message("info", IF interpretation.text = <<>> THEN "None"
                                               ELSE interpretation.text[1])},
            !.raised = IF interpretation.kind = "raise" THEN "change: TypeError" ELSE ""]

\* Lines 52-274, given the server's evaluation of first_image and last_image.
ChangeEvaluated(count, change_index, first_image, last_image, first, last) ==
    LET before_stats == Reduce(first, first_image, change_index)
        after_stats  == Reduce(last, last_image, change_index)
    IN  Then(ChangeVis(count, change_index),
             Then(ChangeMaps(count, Missing(first, change_index) \/ Missing(last, change_index)),
                  Then(ChangeStats(count, change_index, before_stats, after_stats),
                       ChangeInterpretation(count, change_index, before_stats,
                                            after_stats))))

\* Lines 28-235, given first_image and last_image with their indices.
ChangeBody(count, change_index, first_image, last_image) ==
    LET first == Evaluated(first_image)
        last  == Evaluated(last_image)
    IN  ChangeEvaluated(count, change_index, first_image, last_image, first, last)

render_change_tab(results, change_index) ==
    IF results.count < 2
    THEN [EmptyOut EXCEPT !.messages = {Message("warning", TooFewImagesWarning)}]
    ELSE LET first_image == WithIndices(SceneImage(results.collection[1]),
                                        results.config.custom_indices)
             last_image  == WithIndices(SceneImage(results.collection[results.count]),
                                        results.config.custom_indices)
         IN  ChangeBody(results.count, change_index, first_image, last_image)

-----------------------------------------------------------------------------
(* ui/tabs/temporal_tab.py                                                 *)

\* get_cached_temporal_data: the rows of (site, index) dated in [start, end].
get_cached_temporal_data(cache, site_name, index_name, start_date, end_date) ==
    {row \in cache : /\ row.site_name = site_name
                     /\ row.index_name = index_name
                     /\ start_date <= row.analysis_date
                     /\ row.analysis_date <= end_date}

\* save_temporal_point: INSERT IGNORE, one row per (site, index, date).
save_temporal_point(cache, site_name, index_name, date_obj, value) ==
    IF \E row \in cache : /\ row.site_name = site_name
                          /\ row.index_name = index_name
                          /\ row.analysis_date = date_obj
    THEN cache
    ELSE cache \cup {[site_name |-> site_name, index_name |-> index_name,
                      analysis_date |-> date_obj, value |-> value]}

\* ee.Image(collection.filterDate(day, day + 1).first())
FirstOfDay(coll, day) ==
    SceneImage(coll[First({n \in 1..Len(coll) : FilterDate(coll[n], day, day + 1)})])

\* Lines 73-83 for every scene n of the collection and every position p of
\* config['indices']: the calculate_statistics result on the image of the
\* scene's day with its indices.
DayStats(config, coll) ==
    [n \in 1..Len(coll) |->
        StatsOf(WithIndices(FirstOfDay(coll, DateOf(coll[n].time_start)),
                            config.custom_indices),
                config.indices)]

RECURSIVE SavePoints(_, _, _, _, _, _, _)
\* The save_temporal_point calls of lines 85-87 for the scenes todo[k], todo[k+1], ...
SavePoints(cache, config, p, coll, day_stats, todo, k) ==
    IF k > Len(todo) THEN cache
    ELSE SavePoints(IF Absent(day_stats[todo[k]][p]) THEN cache
                    ELSE save_temporal_point(cache, config.site_name, config.indices[p],
                                             DateOf(coll[todo[k]].time_start),
                                             day_stats[todo[k]][p].stats["mean"].num),
                    config, p, coll, day_stats, todo, k + 1)

\* Lines 69-89, the loop over dates_to_process (todo, the scenes' positions
\* in the collection), which ends at the first scene whose
\* calculate_statistics raises (stop, 0 for none): [cache, out].
ProcessDates(config, p, cache, coll, day_stats, todo, stop) ==
    [cache |-> SavePoints(cache, config, p, coll, day_stats,
                          IF stop = 0 THEN todo ELSE SubSeq(todo, 1, stop - 1), 1),
     out   |-> [EmptyOut EXCEPT
                  !.calls =
                      (IF todo = <<>> THEN {}
                       ELSE {EngineCall("temporal", "calculate_indices", config.indices[p],
                                        Len(coll), FALSE)})
                      \cup {SceneCall("temporal", "calculate_statistics", config.indices[p],
                                      Len(coll), Absent(day_stats[todo[k]][p]),
                                      coll[todo[k]].time_start) :
                               k \in {j \in 1..Len(todo) : stop = 0 \/ j <= stop}},
                  !.raised = IF stop = 0 THEN "" ELSE "temporal: EEException"]]

\* Lines 90-107: the chart or the warning, after the table is read again.
TemporalChart(config, p, count, done) ==
    [cache |-> done.cache,
     out   |-> Then([EmptyOut EXCEPT
                       !.calls = {EngineCall("temporal", "get_sentinel2_collection",
                                             config.indices[p], count, FALSE),
                                  EngineCall("temporal", "get_cached_temporal_data",
                                             config.indices[p], count, FALSE)}],
                    IF done.out.raised # "" THEN done.out
                    ELSE [done.out EXCEPT
                            !.messages =
                                IF get_cached_temporal_data(done.cache, config.site_name,
                                       config.indices[p], config.start_date,
                                       config.end_date) # {}
                                THEN {Message("chart", config.indices[p])}
                                ELSE {Message("warning", "No temporal data available for "
                                                            \o config.indices[p])}])]

\* Lines 60-67: dates_to_process, as positions in the collection.
DatesToProcess(coll, existing_data) ==
    SelectSeq([n \in 1..Len(coll) |-> n],
              LAMBDA n : \A row \in existing_data :
                            row.analysis_date # DateOf(coll[n].time_start))

\* Lines 69-107 for the index at position p, given dates_to_process.
TemporalGaps(config, p, cache, coll, day_stats, todo) ==
    LET stop == First({k \in 1..Len(todo) : day_stats[todo[k]][p].kind = "raise"})
        done == ProcessDates(config, p, cache, coll, day_stats, todo, stop)
    IN  TemporalChart(config, p, Len(coll), done)

\* Lines 41-107 for the index at position p: [cache, out].
TemporalIndex(config, p, cache, coll, day_stats) ==
    LET existing_data ==
            get_cached_temporal_data(cache, config.site_name, config.indices[p],
                                     config.start_date, config.end_date)
        dates_to_process == DatesToProcess(coll, existing_data)
    IN  TemporalGaps(config, p, cache, coll, day_stats, dates_to_process)

\* for idx_name in config['indices'], given each pass and the first one that
\* raises (stop, 0 for none).  An index reads and writes only its own rows
\* of the table, so each pass is taken on the table as it was on entry.
TemporalLoop(cache, passes, stop) ==
    [cache |-> UNION ({cache} \cup {passes[k].cache :
                                      k \in {j \in 1..Len(passes) : stop = 0 \/ j <= stop}}),
     out   |-> [EmptyOut EXCEPT
                  !.messages = UNION {passes[k].out.messages :
                                        k \in {j \in 1..Len(passes) : stop = 0 \/ j <= stop}},
                  !.calls    = UNION {passes[k].out.calls :
                                        k \in {j \in 1..Len(passes) : stop = 0 \/ j <= stop}},
                  !.raised   = IF stop = 0 THEN "" ELSE passes[stop].out.raised]]

\* render_temporal_tab, given the collection the query returns.
TemporalWith(config, cache, coll) ==
    LET day_stats == DayStats(config, coll)
        passes    == [p \in 1..Len(config.indices) |->
                         TemporalIndex(config, p, cache, coll, day_stats)]
        stop      == First({k \in 1..Len(passes) : passes[k].out.raised # ""})
    IN  TemporalLoop(cache, passes, stop)

render_temporal_tab(results, cache) ==
    LET collection ==
            get_sentinel2_collection(Aoi(results.config), results.config.start_date,
                                     results.config.end_date, results.config.cloud_cover)
    IN  TemporalWith(results.config, cache, collection)

-----------------------------------------------------------------------------
(* ui/sidebar.py: render_sidebar.                                          *)

\* DEFAULT_CLOUD_COVER
DEFAULT_CLOUD_COVER == 20

\* The values given to the date inputs and the cloud slider.
StartDates   == {1}
EndDates     == {3}
CloudChoices == {0, DEFAULT_CLOUD_COVER}

\* default of the "Select Indices to Calculate" multiselect
DefaultIndices == <<"NDVI", "NDBI">>

\* An Add that keeps the definitions of the same name.
AddCustomKeeping(customs, def) ==
    IF def.name = "" THEN customs
    ELSE Append(customs, def)

\* Lines 256-266: on "Add Custom Index to Analysis"; nothing is added when
\* the name is empty.
AddCustom(customs, def) ==
    IF def.name = "" THEN customs
    ELSE Append(SelectSeq(customs, LAMBDA c : c.name # def.name), def)

\* Lines 279-282: on the remove button of a definition.
RemoveCustom(customs, name) == SelectSeq(customs, LAMBDA c : c.name # name)

RECURSIVE AllIndices(_, _, _)
\* Lines 308-312: the selected indices, then the custom names not among them.
AllIndices(indices, customs, k) ==
    IF k > Len(customs) THEN indices
    ELSE AllIndices(IF customs[k].name \in Range(indices) THEN indices
                    ELSE Append(indices, customs[k].name),
                    customs, k + 1)

\* Lines 314-328: the returned config.
SidebarConfig(preset, start_date, end_date, cloud_cover, customs) ==
    [site_name |-> preset.site_name, center_lat |-> preset.lat,
     center_lon |-> preset.lon, buffer_km |-> preset.buffer_km,
     start_date |-> start_date, end_date |-> end_date, cloud_cover |-> cloud_cover,
     indices |-> AllIndices(DefaultIndices, customs, 1), custom_indices |-> customs]

\* Lines 256-328 in the run in which "Add Custom Index to Analysis" is
\* pressed with def in the builder: line 267 appends the name to the list
\* the multiselect returned, and lines 308-312 append the other names.
AddedIndices(indices, customs, def) ==
    AllIndices(IF def.name = "" THEN indices ELSE Append(indices, def.name),
               AddCustom(customs, def), 1)

Configs(customs) ==
    {SidebarConfig(preset, start_date, end_date, cloud_cover, customs) :
        preset \in SITE_PRESETS, start_date \in StartDates, end_date \in EndDates,
        cloud_cover \in CloudChoices}

-----------------------------------------------------------------------------
(* app.py: main(), one script run.                                         *)

TAB_NAMES == <<"maps", "temporal", "change", "report">>

\* Lines 176-183: the selected tab rendered: [cache, out].
RenderTab(tab, results, customs, cache, change_index) ==
    CASE tab = "maps"     -> [cache |-> cache, out |-> render_maps_tab(results)]
      [] tab = "temporal" -> render_temporal_tab(results, cache)
      [] tab = "change"   -> [cache |-> cache, out |-> render_change_tab(results, change_index)]
      [] tab = "report"   -> [cache |-> cache, out |-> render_report_tab(results, customs)]

\* The tab drawn: what the script run showed, and the tables after it.
Show(tab, phase, drawn) ==
    /\ ui' = Then(phase.out, drawn.out)
    /\ active_tab' = tab
    /\ temporal_cache' = drawn.cache

\* The options of "Select Index for Change Detection" when the change tab
\* is drawn with at least two images; otherwise there is no selectbox.
ChangeChoices(stored, tab) ==
    IF stored # <<>> /\ tab = "change" /\ stored[1].count >= 2
    THEN Range(stored[1].config.indices)
    ELSE {""}

\* Lines 116-183, given the results now in the session.
Render(customs, tab, phase, stored) ==
    IF phase.out.raised # ""
    THEN /\ ui' = phase.out
         /\ UNCHANGED <<active_tab, temporal_cache>>
    ELSE IF stored = <<>>
    THEN /\ ui' = Then(phase.out,
                        [EmptyOut EXCEPT !.messages =
                            {Message("info", "Configure parameters")}])
         /\ UNCHANGED <<active_tab, temporal_cache>>
    ELSE \E change_index \in ChangeChoices(stored, tab) :
            LET drawn == RenderTab(tab, stored[1], customs, temporal_cache, change_index)
            IN  Show(tab, phase, drawn)

\* Lines 69-183, given what the Run Analysis part did.
AfterRun(customs, tab, phase) ==
    /\ custom_indices' = customs
    /\ sites_history' = phase.table
    /\ analysis_results' = IF phase.results # <<>> THEN phase.results
                           ELSE analysis_results
    /\ LET stored == IF phase.results # <<>> THEN phase.results ELSE analysis_results
       IN  Render(customs, tab, phase, stored)
    /\ UNCHANGED <<engineVars, pixelVars>>

\* A constructor that calls ee.Initialize again when it fails.
HeritageMonitorRetrying(ee_ok) ==
    [attempts |-> IF ee_ok THEN 1 ELSE 2,
     raised   |-> IF ee_ok THEN "" ELSE "Failed to initialize Google Earth Engine"]

\* HeritageMonitor.__init__: ee.Initialize is called once, and whatever it
\* raises is raised again as Exception: [attempts, raised].
HeritageMonitor(ee_ok) ==
    [attempts |-> 1,
     raised   |-> IF ee_ok THEN "" ELSE "Failed to initialize Google Earth Engine"]

\* Lines 52-57, given the constructed (or failed) monitor: st.error, st.info
\* and st.stop() when the constructor raised.
Initialized(monitor) ==
    [EmptyOut EXCEPT
        !.calls    = {EngineCall("main", "ee.Initialize", "", monitor.attempts, FALSE)},
        !.messages = IF monitor.raised = "" THEN {}
                     ELSE {Message("error", "Error initializing Google Earth Engine: "
                                               \o monitor.raised),
                           Message("info", "Please ensure you are authenticated with Earth Engine.")},
        !.stopped  = monitor.raised # ""]

Initialization(ee_ok) == LET monitor == HeritageMonitor(ee_ok) IN Initialized(monitor)

\* main(): the sidebar has returned config and left customs in the session;
\* run says whether Run Analysis was pressed; tab is the selected tab.
\* shown is what the sidebar and the region map displayed before line 65.
ScriptRunShowing(config, run, customs, tab, shown) ==
    LET analysed == IF run THEN RunAnalysisPhase(config, sites_history)
                    ELSE [results |-> <<>>, table |-> sites_history, out |-> EmptyOut]
        sidebar  == [shown EXCEPT !.indices = config.indices]
        phase    == [analysed EXCEPT
                        !.out = Then(Initialization(TRUE), Then(sidebar, analysed.out))]
    IN  AfterRun(customs, tab, phase)

\* A script run in which the site part of the session is not touched: the
\* site is the one of config.
ScriptRun(config, run, customs, tab) ==
    /\ ScriptRunShowing(config, run, customs, tab, EmptyOut)
    /\ UNCHANGED session_site

\* main() in a script run in which ee.Initialize raises, whatever the
\* interaction that started the run: the run stops at line 57, before the
\* sidebar, the analysis and the tabs.
InitializationFails ==
    /\ ui' = Initialization(FALSE)
    /\ UNCHANGED <<custom_indices, active_tab, analysis_results, sites_history,
                   temporal_cache, session_site>>
    /\ UNCHANGED <<engineVars, pixelVars>>

\* The config of a script run in which Run Analysis is not pressed: only
\* run_analysis = False is read from it.
Idle(customs) == CHOOSE config \in Configs(customs) : TRUE

\* The config of the script run in which def is added to customs.
Added(customs, def) ==
    [Idle(AddCustom(customs, def)) EXCEPT
        !.indices = AddedIndices(DefaultIndices, customs, def)]

\* "Run Analysis" pressed with some sidebar inputs.
RunAnalysis ==
    \E config \in Configs(custom_indices) :
        ScriptRun(config, TRUE, custom_indices, active_tab)

\* Positions of the "Max Cloud Cover (%)" slider.
CloudSteps == {10, DEFAULT_CLOUD_COVER}

\* "Run Analysis" pressed with the slider at one of CloudSteps and no custom
\* index in the session.
RunAnalysisAt ==
    \E preset \in SITE_PRESETS, start_date \in StartDates, end_date \in EndDates,
       cloud_cover \in CloudSteps :
        /\ custom_indices = <<>>
        /\ ScriptRun(SidebarConfig(preset, start_date, end_date, cloud_cover,
                                   custom_indices),
                     TRUE, custom_indices, active_tab)

\* Another tab chosen in the radio group.
SelectTab ==
    \E k \in 1..Len(TAB_NAMES) :
        /\ TAB_NAMES[k] # active_tab
        /\ analysis_results # <<>>
        /\ ScriptRun(Idle(custom_indices), FALSE, custom_indices, TAB_NAMES[k])

\* "Add Custom Index to Analysis" pressed with a name and a definition.
AddCustomIndex ==
    \E def \in BuilderInputs :
        /\ def.keys # {}
        /\ ScriptRun(Added(custom_indices, def), FALSE, AddCustom(custom_indices, def),
                     active_tab)

\* Every definition the builder can be filled in with, two of them named
\* CUSTOM1, and the builder with an empty name.
SidebarInputs == {CustomNd, CustomDiff, CustomExpr, CustomExprUnbound, CustomNamedNdvi,
                  CustomUnnamed}

\* "Add Custom Index to Analysis" pressed before any analysis is run, with
\* any of these definitions.
AddDefinition ==
    \E def \in SidebarInputs :
        /\ analysis_results = <<>>
        /\ ScriptRun(Added(custom_indices, def), FALSE, AddCustom(custom_indices, def),
                     active_tab)

\* The remove button of an active custom index pressed.
RemoveCustomIndex ==
    \E k \in 1..Len(custom_indices) :
        ScriptRun(Idle(RemoveCustom(custom_indices, custom_indices[k].name)), FALSE,
                  RemoveCustom(custom_indices, custom_indices[k].name), active_tab)

-----------------------------------------------------------------------------
(* The site part of the session: ui/sidebar.py lines 26-76 and 296-305,     *)
(* app.py lines 62-69, ui/tabs/maps_tab.py lines 18-75 and 85-135.          *)

\* list(SITE_PRESETS.keys()): the first preset and 'Custom Region'.
PresetNames == {"Alba Iulia Fortress (Romania)", "Custom Region"}

\* What is typed in "Site Name (Optional)".
TypedNames == {"My Site"}

\* Shapes drawn on the map, as GeoJSON geometries: a marker, and a closed
\* ring of five [lon, lat] positions.
Marker == [type |-> "Point", coordinates |-> <<<<235714, 460686>>>>]
Ring ==
    [type |-> "Polygon",
     coordinates |-> << <<21734, 414026>>, <<21754, 414026>>, <<21754, 414046>>,
                        <<21734, 414046>>, <<21734, 414026>> >>]

\* all_drawings as st_folium returns it: the shapes now on the map.
Drawings == {<<Marker>>, <<Ring>>, <<Ring, Marker>>}

\* sum(values) / len(values) for the coordinate k of the positions.
RECURSIVE Total(_, _, _)
Total(coords, k, n) == IF n = 0 THEN 0 ELSE coords[n][k] + Total(coords, k, n - 1)
Mean(coords, k) == Total(coords, k, Len(coords)) \div Len(coords)

\* Lines 32-45: the selectbox shows another preset than current_preset.
SelectPresetIn(r, preset_name) ==
    IF preset_name = r.current_preset THEN r
    ELSE IF preset_name # "Custom Region"
    THEN LET preset == CHOOSE p \in SITE_PRESETS : p.site_name = preset_name
         IN  [r EXCEPT !.current_preset = preset_name, !.site_name = preset_name,
                       !.center_lat = preset.lat, !.center_lon = preset.lon,
                       !.buffer_km = preset.buffer_km]
    ELSE [r EXCEPT !.current_preset = preset_name, !.site_name = "Custom Region"]

\* update_coordinates_callback: [session_site, msg], msg the coord_update_msg it
\* leaves (<<>> when it leaves none).
update_coordinates_callback(r) ==
    IF r.latest_drawings = <<>>
    THEN [taken |-> r,
          msg    |-> <<Message("warning",
                               "No session_site drawn on map. Please draw a shape first.")>>]
    ELSE LET geometry == r.latest_drawings[Len(r.latest_drawings)]
         IN  IF geometry.type = "Point"
             THEN [taken |-> [r EXCEPT !.center_lon = geometry.coordinates[1][1],
                                        !.center_lat = geometry.coordinates[1][2],
                                        !.site_name = "Custom Region (Point)"],
                   msg    |-> <<Message("success", "Updated to point")>>]
             ELSE IF geometry.type = "Polygon"
             THEN [taken |-> [r EXCEPT !.center_lon = Mean(geometry.coordinates, 1),
                                        !.center_lat = Mean(geometry.coordinates, 2),
                                        !.site_name = "Custom Region (Polygon)"],
                   msg    |-> <<Message("success", "Updated to polygon center")>>]
             ELSE [taken |-> r, msg |-> <<>>]

\* config['site_name'].startswith('Custom Region'), over the names a session
\* can hold here.
StartsWithCustomRegion(site_name) ==
    site_name \in {"Custom Region", "Custom Region (Point)", "Custom Region (Polygon)"}

\* Lines 314-328 of render_sidebar: the config of a session whose site part is r.
RegionConfig(r, customs) ==
    [site_name |-> r.site_name, center_lat |-> r.center_lat,
     center_lon |-> r.center_lon, buffer_km |-> r.buffer_km,
     start_date |-> CHOOSE d \in StartDates : TRUE,
     end_date |-> CHOOSE d \in EndDates : TRUE,
     cloud_cover |-> DEFAULT_CLOUD_COVER,
     indices |-> AllIndices(DefaultIndices, customs, 1), custom_indices |-> customs]

\* Lines 302-305: run_analysis as render_sidebar returns it.
run_analysis(r, pressed) ==
    pressed /\ ~(r.current_preset = "Custom Region" /\ r.site_name = "Custom Region")

\* What the sidebar (line 304) and render_custom_region_map (app.py line 63)
\* show: the guard's warning, the map's prompt and the callback's message.
RegionShown(r, pressed, msg) ==
    [EmptyOut EXCEPT
        !.messages =
            (IF pressed /\ ~run_analysis(r, pressed)
             THEN {Message("warning", "Please select a session_site on the map first!")}
             ELSE {})
            \cup (IF StartsWithCustomRegion(r.site_name)
                  THEN {Message("info", "Use the drawing tools below to select your session_site")}
                       \cup Range(msg)
                  ELSE {})]

\* main() for a session whose site part is r after the widgets are read:
\* the analysis runs when run_analysis is set and the site name is not
\* 'Custom Region' (app.py lines 65 and 69).
RegionRun(r, pressed, msg) ==
    /\ session_site' = r
    /\ ScriptRunShowing(RegionConfig(r, custom_indices),
                        run_analysis(r, pressed) /\ r.site_name # "Custom Region",
                        custom_indices, active_tab, RegionShown(r, pressed, msg))

\* The page is loaded (the selectbox shows the first preset), or another
\* preset is chosen in "Select Heritage Site".
SelectPreset ==
    \E preset_name \in PresetNames :
        /\ preset_name # session_site.current_preset
        /\ session_site.current_preset = "" => preset_name = "Alba Iulia Fortress (Romania)"
        /\ RegionRun(SelectPresetIn(session_site, preset_name), FALSE, <<>>)

\* A name typed in "Site Name (Optional)".
TypeSiteName ==
    \E site_name \in TypedNames :
        /\ session_site.current_preset # ""
        /\ site_name # session_site.site_name
        /\ RegionRun([session_site EXCEPT !.site_name = site_name], FALSE, <<>>)

\* A shape drawn on the session_site map: st_folium returns all_drawings.
DrawOnMap ==
    \E all_drawings \in Drawings :
        /\ session_site.current_preset # ""
        /\ StartsWithCustomRegion(session_site.site_name)
        /\ all_drawings # session_site.latest_drawings
        /\ RegionRun([session_site EXCEPT !.latest_drawings = all_drawings],
                     FALSE, <<>>)

\* "Get Coordinates from Map Selection" pressed: the callback, then the run.
GetCoordinates ==
    /\ session_site.current_preset # ""
    /\ StartsWithCustomRegion(session_site.site_name)
    /\ LET done == update_coordinates_callback(session_site)
       IN  RegionRun(done.taken, FALSE, done.msg)

\* "Run Analysis" pressed with the session's site.
RunAnalysisOfRegion ==
    /\ session_site.current_preset # ""
    /\ RegionRun(session_site, TRUE, <<>>)

\* initialize_session_state, an empty database.
AppInit ==
    /\ custom_indices = <<>>
    /\ active_tab = "maps"
    /\ analysis_results = <<>>
    /\ sites_history = {}
    /\ temporal_cache = {}
    /\ ui = EmptyOut
    /\ session_site = [current_preset |-> "", site_name |-> "Alba Iulia Fortress",
                 center_lat |-> 460686, center_lon |-> 235714, buffer_km |-> 20,
                 latest_drawings |-> <<>>]

-----------------------------------------------------------------------------
(* Pixel arithmetic.  What the server computes for one pixel of a band     *)
(* built by _compute_index or _compute_custom_index.  A pixel value is     *)
(* masked (no data) or the rational num/den in lowest terms, den > 0; the  *)
(* rounding of the server's floating point numbers is not modelled.        *)

Abs(x) == IF x < 0 THEN -x ELSE x

RECURSIVE Gcd(_, _)
Gcd(a, b) == IF b = 0 THEN a ELSE Gcd(b, a % b)

Masked == [masked |-> TRUE, num |-> 0, den |-> 1]

\* The rational n/d, d # 0.
Rational(n, d) ==
    LET g == Gcd(Abs(n), Abs(d))
        s == IF d < 0 THEN -1 ELSE 1
    IN  [masked |-> FALSE, num |-> (s * n) \div g, den |-> (s * d) \div g]

\* ee.Image.add / subtract / multiply: masked where an input is masked.
Add(x, y) ==
    IF x.masked \/ y.masked THEN Masked
    ELSE Rational(x.num * y.den + y.num * x.den, x.den * y.den)

Subtract(x, y) ==
    IF x.masked \/ y.masked THEN Masked
    ELSE Rational(x.num * y.den - y.num * x.den, x.den * y.den)

Multiply(x, y) ==
    IF x.masked \/ y.masked THEN Masked
    ELSE Rational(x.num * y.num, x.den * y.den)

\* ee.Image.divide: "returning 0 for division by 0".
Divide(x, y) ==
    IF x.masked \/ y.masked THEN Masked
    ELSE IF y.num = 0 THEN Rational(0, 1)
    ELSE Rational(x.num * y.den, x.den * y.num)

\* A normalized difference that divides where a + b = 0.
normalizedDifferenceDividing(a, b) ==
    IF a.masked \/ b.masked THEN Masked
    ELSE IF a.num < 0 \/ b.num < 0 THEN Masked
    ELSE Divide(Subtract(a, b), Add(a, b))

\* ee.Image.normalizedDifference: (a - b) / (a + b); the output pixel is
\* masked where an input is masked or negative, and where a + b = 0 (the
\* undefined value of the evaluator's division by zero).
normalizedDifference(a, b) ==
    IF a.masked \/ b.masked THEN Masked
    ELSE IF a.num < 0 \/ b.num < 0 THEN Masked
    ELSE IF Add(a, b).num = 0 THEN Masked
    ELSE Divide(Subtract(a, b), Add(a, b))

\* 'evi' on the raw band values.
EviRaw(px) ==
    LET nir  == px["B8"]
        red  == px["B4"]
        blue == px["B2"]
    IN  Divide(Multiply(Subtract(nir, red), Rational(25, 10)),
               Add(Subtract(Add(nir, Multiply(red, Rational(6, 1))),
                            Multiply(blue, Rational(75, 10))),
                   Rational(1, 1)))

\* Lines 72-80, formula 'evi'.
Evi(px) ==
    LET nir  == Divide(px["B8"], Rational(10000, 1))
        red  == Divide(px["B4"], Rational(10000, 1))
        blue == Divide(px["B2"], Rational(10000, 1))
    IN  Divide(Multiply(Subtract(nir, red), Rational(25, 10)),
               Add(Subtract(Add(nir, Multiply(red, Rational(6, 1))),
                            Multiply(blue, Rational(75, 10))),
                   Rational(1, 1)))

\* 'savi' with 1 + L added instead of multiplied.
SaviAdditive(px) ==
    LET nir == Divide(px["B8"], Rational(10000, 1))
        red == Divide(px["B4"], Rational(10000, 1))
        L   == Rational(5, 10)
    IN  Add(Divide(Subtract(nir, red), Add(Add(nir, red), L)),
            Add(Rational(1, 1), L))

\* Lines 82-90, formula 'savi'.
Savi(px) ==
    LET nir == Divide(px["B8"], Rational(10000, 1))
        red == Divide(px["B4"], Rational(10000, 1))
        L   == Rational(5, 10)
    IN  Multiply(Divide(Subtract(nir, red), Add(Add(nir, red), L)),
                 Add(Rational(1, 1), L))

\* Lines 92-100, formula 'bsi'.
Bsi(px) ==
    LET swir == px["B11"]
        red  == px["B4"]
        nir  == px["B8"]
        blue == px["B2"]
    IN  Divide(Subtract(Add(swir, red), Add(nir, blue)),
               Add(Add(swir, red), Add(nir, blue)))

\* Lines 102-113, formula 'ibi'.
Ibi(px) ==
    LET ndbi  == normalizedDifference(px["B11"], px["B8"])
        mndwi == normalizedDifference(px["B3"], px["B11"])
        savi  == Savi(px)
        mean  == Divide(Add(savi, mndwi), Rational(2, 1))
    IN  Divide(Subtract(ndbi, mean), Add(ndbi, mean))

\* The value at pixel px of the band _compute_index builds for cfg.
IndexValue(px, cfg) ==
    CASE cfg.formula = "normalized_diff" /\ Len(cfg.bands) >= 2 ->
            normalizedDifference(px[cfg.bands[1]], px[cfg.bands[2]])
      [] cfg.formula = "evi"  -> Evi(px)
      [] cfg.formula = "savi" -> Savi(px)
      [] cfg.formula = "bsi"  -> Bsi(px)
      [] cfg.formula = "ibi"  -> Ibi(px)
      [] OTHER -> Masked

\* Lines 131-144: the two-band formulas of _compute_custom_index at pixel px.
CustomValue(px, custom) ==
    CASE custom.formula = "normalized_diff" ->
            normalizedDifference(px[custom.band_a], px[custom.band_b])
      [] custom.formula = "ratio" ->
            Divide(px[custom.band_a], px[custom.band_b])
      [] custom.formula = "difference" ->
            Subtract(px[custom.band_a], px[custom.band_b])
      [] OTHER -> Masked

-----------------------------------------------------------------------------
(* The reducers of calculate_statistics over the pixels of a region.       *)

Less(x, y) == x.num * y.den < y.num * x.den

RECURSIVE Sum(_)
Sum(values) ==
    IF values = <<>> THEN Rational(0, 1) ELSE Add(Head(values), Sum(Tail(values)))

\* The rational whose square is r (r a square of a rational).
SquareRoot(r) ==
    Rational(CHOOSE k \in 0..r.num : k * k <= r.num /\ (k + 1) * (k + 1) > r.num,
             CHOOSE k \in 0..r.den : k * k <= r.den /\ (k + 1) * (k + 1) > r.den)

\* A statistic of the returned dict: None, or a number.
NoStat == [none |-> TRUE, num |-> 0, den |-> 1]
Stat(v) == [none |-> FALSE, num |-> v.num, den |-> v.den]

\* ee.Reducer.mean().combine(stdDev).combine(minMax) over the unmasked
\* values: None for each statistic when there is no unmasked value.
Reducers(valid) ==
    LET n    == Rational(Len(valid), 1)
        mean == Divide(Sum(valid), n)
        squares == [k \in 1..Len(valid) |-> Multiply(Subtract(valid[k], mean),
                                                     Subtract(valid[k], mean))]
    IN  [m \in StatKeys |->
            IF valid = <<>> THEN NoStat
            ELSE CASE m = "mean"   -> Stat(mean)
                   [] m = "stdDev" -> Stat(SquareRoot(Divide(Sum(squares), n)))
                   [] m = "min"    -> Stat(CHOOSE v \in Range(valid) :
                                              \A w \in Range(valid) : ~Less(w, v))
                   [] m = "max"    -> Stat(CHOOSE v \in Range(valid) :
                                              \A w \in Range(valid) : ~Less(v, w))]

\* image.select(index).reduceRegion(...): the dict keyed '{index}_mean',
\* '{index}_stdDev', '{index}_min', '{index}_max'.
reduceRegion(values, index) ==
    LET by_metric == Reducers(SelectSeq(values, LAMBDA v : ~v.masked))
    IN  [key \in {index \o "_" \o m : m \in StatKeys} |->
            by_metric[CHOOSE m \in StatKeys : key = index \o "_" \o m]]

-----------------------------------------------------------------------------
(* Index bands and statistics on sample regions: a region of 2 x 2 pixels, *)
(* the band of one index evaluated on it, and the dict reduceRegion        *)
(* returns for it.  Each behaviour evaluates one sample.                   *)

\* Surface reflectance values (integer-scaled, never negative in
\* S2_SR_HARMONIZED) the bands of a sample pixel take.
Reflectances == {0, 1000, 5000}

\* The bands whose value varies from sample to sample; the others are 1000.
VariedBands == {"B2", "B4", "B8", "B11"}

\* The sample pixels of an image: a pixel gives each band its value.
PixelsOf(img) ==
    {[b \in BandNames(img) |-> IF b \in VariedBands THEN Rational(f[b], 1)
                               ELSE Rational(1000, 1)] :
        f \in [VariedBands -> Reflectances]}

\* A pixel outside the footprint or masked for clouds: no band has a value.
NoData(px) == [b \in DOMAIN px |-> Masked]

\* The 2 x 2 region whose rows are the pixels p and q.
Region(p, q) == <<p, p, q, q>>

NothingComputed ==
    [op |-> "", name |-> "", formula |-> "", bands |-> <<>>, values |-> <<>>]

\* The outcome of calculate_statistics: the dict, or an exception.
StatsReturned(stats) == [kind |-> "ok", stats |-> stats]
StatsRaised == [kind |-> "raise", stats |-> <<>>]

\* The band _compute_index builds for entry cfg, on every pixel of region.
IndexBand(region, cfg) ==
    [j \in 1..Len(region) |-> IndexValue(region[j], cfg)]

\* A catalog index computed and reduced over a sample region.
EvaluateIndex ==
    \E p \in PixelsOf(S2Image), masked_row \in BOOLEAN, k \in 1..Len(INDICES_CONFIG) :
        LET region == Region(p, IF masked_row THEN NoData(p) ELSE p)
            cfg    == INDICES_CONFIG[k]
            values == IndexBand(region, cfg)
        IN  /\ pixels = <<>>
            /\ pixels' = region
            /\ computed' = [op |-> "catalog", name |-> cfg.idx_name,
                            formula |-> cfg.formula, bands |-> cfg.bands,
                            values |-> values]
            /\ statistics' = StatsReturned(reduceRegion(values, cfg.idx_name))
            /\ UNCHANGED <<engineVars, appVars>>

\* The bands a user picks in the Custom Index Builder for band A and band B.
BuilderBands == {"B4", "B8"}

\* A two-band user index computed and reduced over a sample region.
EvaluateCustomIndex ==
    \E p \in PixelsOf(S2Image), masked_row \in BOOLEAN,
       formula \in {"normalized_diff", "ratio", "difference"},
       a \in BuilderBands, b \in BuilderBands :
        LET region == Region(p, IF masked_row THEN NoData(p) ELSE p)
            custom == [CustomNd EXCEPT !.formula = formula, !.band_a = a, !.band_b = b]
            values == [j \in 1..Len(region) |-> CustomValue(region[j], custom)]
        IN  /\ pixels = <<>>
            /\ pixels' = region
            /\ computed' = [op |-> "custom", name |-> custom.name,
                            formula |-> formula, bands |-> <<a, b>>,
                            values |-> values]
            /\ statistics' = StatsReturned(reduceRegion(values, custom.name))
            /\ UNCHANGED <<engineVars, appVars>>

\* calculate_indices(image) on the two-band image, no user definitions, and
\* the server's evaluation of the result.
IndexedTwoBand == calculate_indices(TwoBandImage, <<>>)
EvaluatedTwoBand == Materialize(IndexedTwoBand)

\* The evaluated image calculate_indices(img) describes, for a sample image.
EvaluatedSample(img) ==
    IF img = S2Image THEN EvaluatedS2[IndexedS2[<<>>]] ELSE EvaluatedTwoBand

\* The catalog entry a staged band was built from.
EntryOf(band) ==
    CHOOSE cfg \in Range(INDICES_CONFIG) :
        _compute_index(S2Image, band.name, cfg).band.expr = band.expr

\* The value at pixel px of a band of an evaluated image.
BandValue(band, px) ==
    IF band.origin = "source" THEN px[band.expr]
    ELSE IF band.origin = "catalog" THEN IndexValue(px, EntryOf(band))
    ELSE Masked

\* calculate_statistics on the evaluated image M over region: getInfo
\* raises when the image cannot be evaluated or has no band named index.
RegionStatistics(M, region, index) ==
    IF ~M.ok \/ index \notin BandNames(M.bands) THEN StatsRaised
    ELSE LET band == M.bands[CHOOSE k \in 1..Len(M.bands) : M.bands[k].name = index]
         IN  StatsReturned(reduceRegion([j \in 1..Len(region) |->
                                            BandValue(band, region[j])], index))

SampleImages == {S2Image, TwoBandImage}

\* calculate_indices(image) followed by calculate_statistics(image, region,
\* index) on a sample image.
AnalyseRegion ==
    \E img \in SampleImages, masked_row \in BOOLEAN, index \in CatalogNames :
        \E p \in PixelsOf(img) :
            LET region == Region(p, IF masked_row THEN NoData(p) ELSE p)
                M      == EvaluatedSample(img)
            IN  /\ pixels = <<>>
                /\ pixels' = region
                /\ computed' = [op |-> "calculate_indices", name |-> index,
                                formula |-> "", bands |-> img, values |-> <<>>]
                /\ statistics' = RegionStatistics(M, region, index)
                /\ UNCHANGED <<engineVars, appVars>>

\* ee.Image.abs, gt, lt, Or and updateMask on one pixel: a comparison gives
\* 1 or 0 and is masked where an input is masked.
abs(x) == IF x.masked THEN Masked ELSE Rational(Abs(x.num), x.den)
Truth(b) == IF b THEN Rational(1, 1) ELSE Rational(0, 1)
gt(x, y) == IF x.masked \/ y.masked THEN Masked ELSE Truth(Less(y, x))
gte(x, y) == IF x.masked \/ y.masked THEN Masked ELSE Truth(~Less(x, y))
lt(x, y) == IF x.masked \/ y.masked THEN Masked ELSE Truth(Less(x, y))
Or(x, y) == IF x.masked \/ y.masked THEN Masked ELSE Truth(x.num # 0 \/ y.num # 0)
updateMask(x, mask) == IF x.masked \/ mask.masked \/ mask.num = 0 THEN Masked ELSE x

\* Python's -threshold.
Negative(t) == Rational(-t.num, t.den)

\* detect_changes with gte in place of gt.
detect_changesInclusive(image1, image2, threshold) ==
    LET diff        == Subtract(image2, image1)
        change_mask == gte(abs(diff), threshold)
    IN  updateMask(diff, change_mask)

\* HeritageMonitor.detect_changes on one pixel of the band of index.
detect_changes(image1, image2, threshold) ==
    LET diff        == Subtract(image2, image1)
        change_mask == gt(abs(diff), threshold)
    IN  updateMask(diff, change_mask)

\* change_tab.py lines 128-133: change_mask on one pixel.
change_mask(first_image, last_image, threshold) ==
    LET diff          == Subtract(last_image, first_image)
        decrease_mask == lt(diff, Negative(threshold))
        increase_mask == gt(diff, threshold)
    IN  Or(decrease_mask, increase_mask)

\* Lines 136-144: change_colored on one pixel (the overlay's colour, masked
\* where the pixel is not marked as changed).
change_colored(first_image, last_image, threshold) ==
    updateMask(Truth(TRUE), change_mask(first_image, last_image, threshold))

\* Index values of a pixel in the two images, and thresholds: those of the
\* slider of change_tab.py line 46 and others detect_changes can be given.
IndexValues == {Masked} \cup {Rational(n, 20) : n \in {-20, -4, -1, 0, 1, 3, 4, 8, 20}}
Thresholds  == {Rational(n, 20) : n \in {-4, 0, 1, 4, 10}}

\* detect_changes and the change tab's overlay computed for one pixel.
DetectChanges ==
    \E before \in IndexValues, after \in IndexValues, threshold \in Thresholds :
        /\ pixels = <<>>
        /\ pixels' = <<before, after>>
        /\ computed' = [op |-> "detect_changes", threshold |-> threshold,
                        kept |-> detect_changes(before, after, threshold),
                        marked |-> change_colored(before, after, threshold)]
        /\ UNCHANGED statistics
        /\ UNCHANGED <<engineVars, appVars>>

PixelInit ==
    /\ pixels = <<>>
    /\ computed = NothingComputed
    /\ statistics = StatsRaised

-----------------------------------------------------------------------------
(* Specifications.                                                         *)

EngineInit ==
    /\ pc = "idle"
    /\ image = <<>>
    /\ extra_indices = <<>>
    /\ i = 1
    /\ bands_to_add = <<>>
    /\ result = NoHandle
    /\ skipped = <<>>
    /\ log = <<>>

vars == <<engineVars, appVars, pixelVars>>

Init == EngineInit /\ AppInit /\ PixelInit

\* Calls of calculate_indices on arbitrary images and definition lists.
Next == Call \/ CatalogStep \/ CustomStep \/ AddBandsStep \/ Return

Spec == Init /\ [][Next]_vars

\* The application: script runs of app.main().
NextApp ==
    RunAnalysis \/ SelectTab \/ AddCustomIndex \/ RemoveCustomIndex \/ InitializationFails

SpecApp == Init /\ [][NextApp]_vars

\* The Custom Index Builder used before any analysis is run.
NextSidebar == AddDefinition \/ RemoveCustomIndex

SpecSidebar == Init /\ [][NextSidebar]_vars

\* Index bands and statistics computed on sample regions.
NextTemporal == RunAnalysisAt \/ SelectTab
SpecTemporal == Init /\ [][NextTemporal]_vars

\* The site chosen, named, drawn and analysed.
NextRegion ==
    SelectPreset \/ TypeSiteName \/ DrawOnMap \/ GetCoordinates \/ RunAnalysisOfRegion

SpecRegion == Init /\ [][NextRegion]_vars

\* Change detection on one pixel.
NextChange == DetectChanges

SpecChange == Init /\ [][NextChange]_vars

NextPixel == EvaluateIndex \/ EvaluateCustomIndex \/ AnalyseRegion

SpecPixel == Init /\ [][NextPixel]_vars


-----------------------------------------------------------------------------
(* Properties of the application, stated on the last script run (ui) and   *)
(* on the session.                                                         *)

TabPhases == {"report", "change", "temporal"}

\* C3: when a reduction made by the report, change or temporal tab finds no
\* valid pixel, the script run does not end with an exception and the tab
\* does not show the number 0 for that index.
C3_AbsentIsExplicit ==
    \A c \in ui.calls :
        (c.op = "calculate_statistics" /\ c.absent /\ c.phase \in TabPhases) =>
            /\ ui.raised = ""
            /\ ~\E m \in ui.metrics : m.idx = c.idx /\ m.key = "mean" /\ m.num = 0

\* The last script run pressed Run Analysis and found a stored row.
CachedRun ==
    /\ \E c \in ui.calls : c.phase = "main" /\ c.op = "get_sentinel2_collection"
    /\ analysis_results # <<>>
    /\ analysis_results[1].is_from_cache

\* C4: a Run Analysis whose seven hashed values have a stored row makes no
\* calculate_statistics call, in the run itself or in the tab drawn from its
\* results.
C4_CachedRunRecomputesNothing ==
    CachedRun => \A c \in ui.calls : c.op # "calculate_statistics"

\* The collection query of the last Run Analysis returned no scene.
ZeroSceneRun ==
    \E c \in ui.calls :
        c.phase = "main" /\ c.op = "get_sentinel2_collection" /\ c.count = 0

\* C5: no median, calculate_indices or calculate_statistics is requested on
\* a collection of zero scenes, and a run whose query returns zero scenes
\* shows the no-images warning and does not end with an exception.
C5_EmptyCollectionIsReported ==
    /\ \A c \in ui.calls :
          c.count = 0 => c.op \notin {"median", "calculate_indices", "calculate_statistics"}
    /\ ZeroSceneRun =>
          /\ Message("warning", NoImagesWarning) \in ui.messages
          /\ ui.raised = ""

\* The scenes the query is specified to return: over the geometry, acquired
\* on a day from start to end, both included, and less cloudy than max_cloud.
InclusiveQuery(geometry, start_date, end_date, max_cloud) ==
    {scene \in Range(ARCHIVE) :
        /\ FilterBounds(scene, geometry)
        /\ start_date <= DateOf(scene.time_start)
        /\ DateOf(scene.time_start) <= end_date
        /\ scene.cloud < max_cloud}

\* C6: the collection a Run Analysis stores is exactly the archive scenes
\* over the geometry acquired from the start date to the end date, both
\* included, and with a cloud percentage strictly below the ceiling.
C6_QueryIsInclusive ==
    analysis_results # <<>> =>
        LET config == analysis_results[1].config
        IN  Range(analysis_results[1].collection)
              = InclusiveQuery(Aoi(config), config.start_date, config.end_date,
                               config.cloud_cover)

\* C7: no script run catches and discards an exception outside
\* calculate_indices.
C7_OnlyCalculateIndicesSwallows == ui.swallowed = {}

-----------------------------------------------------------------------------
(* Properties of the band arithmetic and of the statistics, stated on the  *)
(* sample last evaluated.                                                  *)

\* The sample is a normalized difference of two bands, catalog or custom.
NdSample ==
    /\ computed.op \in {"catalog", "custom"}
    /\ computed.formula = "normalized_diff"

\* The values of band A and band B of the sample at pixel j.
BandA(j) == pixels[j][computed.bands[1]]
BandB(j) == pixels[j][computed.bands[2]]

\* Every statistic of the returned dict is None.
AllAbsent ==
    /\ statistics.kind = "ok"
    /\ \A key \in DOMAIN statistics.stats : statistics.stats[key].none

\* Every statistic of the returned dict is the number 0.
AllZero ==
    /\ statistics.kind = "ok"
    /\ \A key \in DOMAIN statistics.stats : statistics.stats[key] = Stat(Rational(0, 1))

\* C11 as stated: where band A equals band B at every pixel, the normalized
\* difference is undefined at every pixel and every statistic over the
\* region is absent.
C11_EqualBandsUndefined ==
    (NdSample /\ \A j \in 1..Len(pixels) : BandA(j) = BandB(j)) =>
        /\ \A j \in 1..Len(pixels) : computed.values[j].masked
        /\ AllAbsent

\* C11, amended: where band A and band B are both 0 at every pixel, the
\* normalized difference is undefined at every pixel and every statistic is
\* absent; where they are equal and positive at every pixel, the normalized
\* difference is the number 0 and the statistics are 0.
C11_ZeroBandsUndefined ==
    /\ (NdSample /\ \A j \in 1..Len(pixels) :
                        BandA(j) = Rational(0, 1) /\ BandB(j) = Rational(0, 1)) =>
          /\ \A j \in 1..Len(pixels) : computed.values[j].masked
          /\ AllAbsent
    /\ (NdSample /\ \A j \in 1..Len(pixels) :
                        ~BandA(j).masked /\ BandA(j) = BandB(j) /\ BandA(j).num > 0) =>
          /\ \A j \in 1..Len(pixels) : computed.values[j] = Rational(0, 1)
          /\ AllZero

\* A normalized difference of two bands that are 0 at every pixel has been
\* reduced, and every statistic is absent.
C11_Witness ==
    /\ NdSample
    /\ \A j \in 1..Len(pixels) : BandA(j) = Rational(0, 1) /\ BandB(j) = Rational(0, 1)
    /\ computed.bands[1] # computed.bands[2]
    /\ AllAbsent

\* The sample is 'evi' or 'savi' and NIR, RED and BLUE are 0 at pixel j.
DarkPixel(j) ==
    /\ computed.op = "catalog"
    /\ computed.formula \in {"evi", "savi"}
    /\ pixels[j]["B8"] = Rational(0, 1)
    /\ pixels[j]["B4"] = Rational(0, 1)
    /\ pixels[j]["B2"] = Rational(0, 1)

\* C12 as stated: at a pixel where B8 = B4 = B2 = 0, 'evi' and 'savi' give
\* an undefined value, and computing them raises nothing.
C12_DarkPixelUndefined ==
    \A j \in 1..Len(pixels) :
        DarkPixel(j) => computed.values[j].masked /\ statistics.kind = "ok"

\* C12, amended: at a pixel where B8 = B4 = B2 = 0, 'evi' and 'savi' give
\* the value 0 (their denominators are 1 and 0.5 there), and computing them
\* raises nothing.
C12_DarkPixelIsZero ==
    \A j \in 1..Len(pixels) :
        DarkPixel(j) => computed.values[j] = Rational(0, 1) /\ statistics.kind = "ok"

\* 'savi' has been computed on a region whose pixels all have
\* B8 = B4 = B2 = 0.
C12_Witness ==
    /\ computed.formula = "savi"
    /\ \A j \in 1..Len(pixels) : DarkPixel(j)
    /\ AllZero

\* value = p / q, for integers p and q # 0.
IsQuotient(value, p, q) == ~value.masked /\ value.num * q = p * value.den

\* The raw (integer-scaled) value of band b at pixel j.
Raw(j, b) == pixels[j][b].num

\* C13: at every pixel with data, 'evi' is 2.5(N - R) / (N + 6R - 7.5B + 1)
\* and 'savi' is 1.5(N - R) / (N + R + 0.5) for N, R, B the values of B8,
\* B4, B2 divided by 10000, and 'bsi' is
\* ((B11 + B4) - (B8 + B2)) / ((B11 + B4) + (B8 + B2)) on the raw values,
\* wherever the denominator of the formula is not zero.  With n, r, b the
\* raw values, the first two are 25(n - r) / (10n + 60r - 75b + 100000) and
\* 3(n - r) / (2n + 2r + 10000).
C13_FormulasAsSpecified ==
    \A j \in 1..Len(pixels) :
        (computed.op = "catalog" /\ ~pixels[j]["B8"].masked) =>
            LET n == Raw(j, "B8")
                r == Raw(j, "B4")
                b == Raw(j, "B2")
                s == Raw(j, "B11")
            IN  /\ (computed.formula = "evi" /\ 10 * n + 60 * r - 75 * b + 100000 # 0) =>
                      IsQuotient(computed.values[j], 25 * (n - r),
                                 10 * n + 60 * r - 75 * b + 100000)
                /\ computed.formula = "savi" =>
                      IsQuotient(computed.values[j], 3 * (n - r), 2 * n + 2 * r + 10000)
                /\ (computed.formula = "bsi" /\ (s + r) + (n + b) # 0) =>
                      IsQuotient(computed.values[j], (s + r) - (n + b), (s + r) + (n + b))

\* 'evi' has been computed at a pixel with B8 = 5000, B4 = 1000, B2 = 1000:
\* 2.5 * 0.4 / 1.35 = 20/27.
C13_Witness ==
    /\ computed.op = "catalog"
    /\ computed.formula = "evi"
    /\ Raw(1, "B8") = 5000 /\ Raw(1, "B4") = 1000 /\ Raw(1, "B2") = 1000
    /\ computed.values[1] = Rational(20, 27)

\* calculate_indices and calculate_statistics(image, region, 'NDVI') have
\* been called on the two-band image with B8 = 5000 and B4 = 1000 at each
\* pixel of the region.
TwoBandScenario ==
    /\ computed.op = "calculate_indices"
    /\ computed.bands = TwoBandImage
    /\ computed.name = "NDVI"
    /\ \A j \in 1..Len(pixels) :
          pixels[j]["B8"] = Rational(5000, 1) /\ pixels[j]["B4"] = Rational(1000, 1)

\* C14: on the two-band image with B8 = 5000 and B4 = 1000 over a 2 x 2
\* region, calculate_indices then calculate_statistics for 'NDVI' returns
\* exactly the keys NDVI_mean, NDVI_stdDev, NDVI_min, NDVI_max, with
\* mean = min = max = 4000/6000 and stdDev = 0.
C14_TwoBandNdviStatistics ==
    TwoBandScenario =>
        /\ statistics.kind = "ok"
        /\ DOMAIN statistics.stats = {"NDVI_mean", "NDVI_stdDev", "NDVI_min", "NDVI_max"}
        /\ statistics.stats["NDVI_mean"] = Stat(Rational(4000, 6000))
        /\ statistics.stats["NDVI_min"] = Stat(Rational(4000, 6000))
        /\ statistics.stats["NDVI_max"] = Stat(Rational(4000, 6000))
        /\ statistics.stats["NDVI_stdDev"] = Stat(Rational(0, 1))

\* The same scenario on a Sentinel-2 image, which has every band the catalog
\* refers to: the statistics are those C14 states.
S2Scenario ==
    /\ computed.op = "calculate_indices"
    /\ computed.bands = S2Image
    /\ computed.name = "NDVI"
    /\ \A j \in 1..Len(pixels) :
          pixels[j]["B8"] = Rational(5000, 1) /\ pixels[j]["B4"] = Rational(1000, 1)
    /\ statistics.kind = "ok"
    /\ statistics.stats["NDVI_mean"] = Stat(Rational(2, 3))
    /\ statistics.stats["NDVI_stdDev"] = Stat(Rational(0, 1))

-----------------------------------------------------------------------------
(* Properties of the collection query and of the session.                  *)

\* C15: the scenes of the collection a Run Analysis stores are in
\* non-decreasing order of acquisition time, and so the scene the change tab
\* takes as 'first' (position 0) is not acquired later than the one it takes
\* as 'last' (position count - 1).
C15_CollectionChronological ==
    analysis_results # <<>> =>
        LET coll == analysis_results[1].collection
        IN  /\ \A j, k \in 1..Len(coll) :
                  j < k => coll[j].time_start <= coll[k].time_start
            /\ coll # <<>> => coll[1].time_start <= coll[Len(coll)].time_start

\* C16: in a script run in which Earth Engine initialization fails, the
\* error is shown and the run stops; ee.Initialize is called exactly once,
\* and the run makes no collection query, index computation, statistics
\* reduction or cache read or write.
C16_FailedInitializationStops ==
    [][ui'.stopped =>
          /\ \E m \in ui'.messages : m.kind = "error"
          /\ ui'.raised = ""
          /\ ui'.calls = {EngineCall("main", "ee.Initialize", "", 1, FALSE)}
          /\ UNCHANGED <<sites_history, temporal_cache, analysis_results>>]_vars

\* A script run has stopped on a failed initialization after an analysis
\* was run and stored.
C16_Witness ==
    /\ ui.stopped
    /\ analysis_results # <<>>
    /\ sites_history # {}

\* The definition a list holds for a name, <<>> for none.
DefinitionOf(customs, name) ==
    IF \E k \in 1..Len(customs) : customs[k].name = name
    THEN <<customs[CHOOSE k \in 1..Len(customs) : customs[k].name = name]>>
    ELSE <<>>

\* The names a list holds.
NamesOf(customs) == {customs[k].name : k \in 1..Len(customs)}

\* C17: after every Add and every remove, the session's custom-index list
\* holds at most one definition per name and none with an empty name, and
\* the step changes the definition of at most one name: an Add of a name
\* already present replaces its definition, and a remove leaves every other
\* definition as it was.
C17_OneDefinitionPerName ==
    [][/\ \A j, k \in 1..Len(custom_indices') :
              custom_indices'[j].name = custom_indices'[k].name => j = k
       /\ "" \notin NamesOf(custom_indices')
       /\ Cardinality({name \in NamesOf(custom_indices) \cup NamesOf(custom_indices') :
                          DefinitionOf(custom_indices, name)
                              # DefinitionOf(custom_indices', name)}) <= 1]_vars

\* The list holds the second definition of CUSTOM1 and two other names.
C17_Witness ==
    /\ Len(custom_indices) = 3
    /\ CustomDiff \in Range(custom_indices)
    /\ CustomNd \notin Range(custom_indices)

\* C19: no script run reads INDICES_CONFIG for a name outside the catalog:
\* the layer loop and the legend loop of the maps tab and the visualisation
\* parameters of the change tab read it only for catalog names, no KeyError
\* ends the run or is swallowed, and for a name outside the catalog the
\* change tab takes its default parameters.
C19_LookupsAreGuarded ==
    /\ \A c \in ui.calls : c.op = "INDICES_CONFIG" => c.idx \in CatalogNames
    /\ \A c \in ui.calls : c.op = "default vis_index" => c.idx \notin CatalogNames
    /\ ui.raised \notin {"maps: KeyError", "change: KeyError"}
    /\ \A x \in ui.swallowed : x.op # "INDICES_CONFIG"

\* The maps tab has drawn the layers and the legend of a config whose
\* indices include a user-defined name.
C19_Witness ==
    /\ analysis_results # <<>>
    /\ Range(analysis_results[1].config.indices) \ CatalogNames # {}
    /\ \E c \in ui.calls : c.phase = "maps" /\ c.op = "INDICES_CONFIG"
    /\ \E c \in ui.calls : c.phase = "maps" /\ c.op = "addLayer" /\ c.idx \notin CatalogNames

\* C20: when the maps tab has drawn its layers, no layer of a user-defined
\* index of config['custom_indices'] that evaluates successfully has failed
\* for want of its band on the image the layers are taken from.
C20_CustomLayersAvailable ==
    analysis_results # <<>> =>
        LET config == analysis_results[1].config
        IN  \A k \in 1..Len(config.custom_indices) :
                (/\ CustomComputable(S2Image, config.custom_indices[k])
                 /\ \E c \in ui.calls : c.phase = "maps" /\ c.op = "median") =>
                    /\ EngineCall("maps", "addLayer", config.custom_indices[k].name,
                                  analysis_results[1].count, FALSE) \in ui.calls
                    /\ Swallowed("maps", "addLayer", config.custom_indices[k].name)
                          \notin ui.swallowed

\* C21: a run served from the cache holds a statistics entry for every index
\* name of that run's config['indices'].
C21_CachedStatsCoverIndices ==
    CachedRun =>
        Range(analysis_results[1].config.indices) \subseteq DOMAIN analysis_results[1].stats

\* The last script run drew the maps tab: its "Found n images" line is shown.
MapsTabDrawn ==
    /\ analysis_results # <<>>
    /\ Message("info", "Found " \o ToString(analysis_results[1].count)
                            \o " Sentinel-2 images") \in ui.messages

\* C22: the maps tab shows its "No images found for the selected period"
\* warning exactly when the image count is 0.
C22_WarningIffNoImages ==
    MapsTabDrawn =>
        (Message("warning", MapsNoImagesWarning) \in ui.messages
            <=> analysis_results[1].count = 0)

\* C23: after a Run Analysis whose query returned zero scenes, the session
\* holds no results of another configuration (one whose query found scenes)
\* and no tab is drawn from such results.
C23_NoStaleResults ==
    ZeroSceneRun =>
        /\ analysis_results = <<>> \/ analysis_results[1].count = 0
        /\ \A c \in ui.calls : c.phase # "main" => c.count = 0

\* The calculate_statistics calls the temporal tab made in the last script run.
TemporalComputations ==
    {c \in ui.calls : c.phase = "temporal" /\ c.op = "calculate_statistics"}

\* C24: in a render of the temporal tab no date that has a row of (site,
\* index) in the table is computed, no date is computed twice for an index,
\* and, when the render ends without an exception, every computed date
\* whose mean is not None has a row afterwards.
C24_GapsComputedOnce ==
    [][\A c \in TemporalComputations' :
          /\ ~\E row \in temporal_cache :
                  /\ row.site_name = analysis_results'[1].config.site_name
                  /\ row.index_name = c.idx
                  /\ row.analysis_date = DateOf(c.ts)
          /\ \A d \in TemporalComputations' :
                  (d.idx = c.idx /\ DateOf(d.ts) = DateOf(c.ts)) => d.ts = c.ts
          /\ (ui'.raised = "" /\ ~c.absent) =>
                  \E row \in temporal_cache' :
                      /\ row.site_name = analysis_results'[1].config.site_name
                      /\ row.index_name = c.idx
                      /\ row.analysis_date = DateOf(c.ts)]_vars

\* C25: a value the temporal chart takes from the table is the value of the
\* displayed request itself: the request's collection (its region and cloud
\* ceiling) has a scene on the row's date, and the row's value is the mean
\* over the first such scene.
C25_CachedValueIsOwnValue ==
    analysis_results # <<>> =>
        LET results == analysis_results[1]
            config  == results.config
        IN  \A idx \in Range(config.indices) :
                Message("chart", idx) \in ui.messages =>
                    \A row \in get_cached_temporal_data(temporal_cache, config.site_name, idx,
                                                         config.start_date, config.end_date) :
                        \E n \in 1..Len(results.collection) :
                            /\ DateOf(results.collection[n].time_start) = row.analysis_date
                            /\ row.value = FirstOfDay(results.collection,
                                                      row.analysis_date).value

\* C26: the list config['indices'] render_sidebar returned in the last script
\* run holds the name of every active custom index and holds no name twice.
C26_IndicesDistinctAndComplete ==
    ui.indices # <<>> =>
        /\ \A k \in 1..Len(custom_indices) : custom_indices[k].name \in Range(ui.indices)
        /\ \A j, k \in 1..Len(ui.indices) : ui.indices[j] = ui.indices[k] => j = k

\* What the report tab showed in the last script run, if it was drawn.
ReportDrawn == \E c \in ui.calls : c.phase = "report"
ReportShown ==
    [metrics   |-> {m \in ui.metrics : m.tab = "report"},
     swallowed |-> {x \in ui.swallowed : x.phase = "report"},
     raised    |-> ui.raised]

\* C27: while the session holds the same analysis results, two consecutive
\* script runs that draw the report tab show the same report, whatever was
\* added to or removed from the session's custom indices in between.
C27_ReportUsesRunDefinitions ==
    [][(/\ analysis_results # <<>>
        /\ analysis_results' = analysis_results
        /\ ReportDrawn
        /\ ReportDrawn') => ReportShown' = ReportShown]_vars

\* The last script run started an analysis (line 70 was reached).
AnalysisStarted ==
    \E c \in ui.calls : c.phase = "main" /\ c.op = "get_analysis_from_db"

\* C28: with the preset 'Custom Region' selected, no analysis is started while
\* nothing has been drawn on the map (so that update_coordinates_callback
\* cannot have taken a region from a drawing).
C28_NoAnalysisBeforeDrawing ==
    (session_site.current_preset = "Custom Region" /\ AnalysisStarted) =>
        session_site.latest_drawings # <<>>

\* C29: detect_changes keeps a pixel exactly when the change tab marks it as
\* changed, and a pixel whose absolute difference equals the threshold is
\* neither kept nor marked.
C29_SameChangedPixels ==
    computed.op = "detect_changes" =>
        /\ ~computed.kept.masked <=> ~computed.marked.masked
        /\ (/\ ~pixels[1].masked
            /\ ~pixels[2].masked
            /\ abs(Subtract(pixels[2], pixels[1])) = computed.threshold) =>
                computed.kept.masked /\ computed.marked.masked

\* A pixel whose difference is minus the threshold, one of the slider's.
C29_Witness ==
    /\ computed.op = "detect_changes"
    /\ ~pixels[1].masked
    /\ ~pixels[2].masked
    /\ computed.threshold.num > 0
    /\ Subtract(pixels[2], pixels[1]) = Negative(computed.threshold)

\* C30: every call of get_ai_interpretation the change tab makes returns an
\* interpretation string (not None), which the tab displays.
C30_InterpretationReturned ==
    \A c \in ui.calls :
        c.op = "get_ai_interpretation" =>
            /\ ~c.absent
            /\ Message("info", "None") \notin ui.messages

====
